---- MODULE Spec2Model ----
(***************************************************************************)
(* A model of autoscribe's commit classification and changelog assembly    *)
(* pipeline: the conventional-commit parser and the git log (core/git.py), *)
(* the grouping of changes, the version assembler, the renderer and the    *)
(* saved file (core/changelog.py), the changelog document                  *)
(* (models/changelog.py) and the enhancement service (services/openai.py), *)
(* together with the latest tag (core/git.py), the order of semantic       *)
(* versions (utils/version.py), the validated configuration                *)
(* (models/config.py) and the generate command with its GitHub release     *)
(* (cli/main.py, services/github.py).                                      *)
(*                                                                         *)
(* Text is a sequence of one-character strings, so that the parser is      *)
(* modelled by what its regular expression does to the characters.         *)
(* An Optional value is a sequence of length 0 (None) or 1.                *)
(***************************************************************************)
EXTENDS Integers, Sequences, FiniteSets, TLC

VARIABLES
    categories,   \* ChangelogService.config.categories (a list of category names)
    ai_service,   \* ChangelogService.ai_service: "None" or "AIService"
    call,         \* the operation invoked last, with its arguments
    ret,          \* what that operation returned or raised
    changelog,    \* ChangelogService.changelog (the document model)
    output_file,  \* the file at config.output: None when missing, else its text
    added,        \* the versions passed to add_version since construction
    config,       \* the AutoScribeConfig object in use
    options,      \* the command line options of the generate run
    pc,           \* the statement of generate that runs next
    locals,       \* the local variables of the generate run
    releases,     \* the calls of GitHubService.create_release, in order
    exit_code     \* the exit code of the process: None while it runs

vars == <<categories, ai_service, call, ret, changelog, output_file, added,
          config, options, pc, locals, releases, exit_code>>

\* the configuration object and the run of the generate command
clivars == <<config, options, pc, locals, releases, exit_code>>

\* the document model and the file it is saved to
logvars == <<changelog, output_file, added>>

----------------------------------------------------------------------------
(* Text helpers *)

None == <<>>

Some(x) == <<x>>

\* p occurs in s at position i
OccursAt(s, p, i) ==
    /\ i >= 1
    /\ i + Len(p) - 1 <= Len(s)
    /\ \A k \in 1..Len(p) : s[i + k - 1] = p[k]

\* Python's `p in s`
Contains(s, p) ==
    \E i \in 1..(Len(s) + 1) : OccursAt(s, p, i)

Min(S) == CHOOSE x \in S : \A y \in S : x <= y

\* Op applied to the value of e, which is computed once
Let(e, Op(_)) == CHOOSE r \in { Op(x) : x \in {e} } : TRUE

\* the sequence f as a tuple whose elements are computed once
Tuple(f) == f \o <<>>

\* v, compared with itself: a value that is defined once and read by every
\* step is brought to its normal form where it is defined
Normal(v) == IF v = v THEN v ELSE v

DecimalDigits == <<"0", "1", "2", "3", "4", "5", "6", "7", "8", "9">>

----------------------------------------------------------------------------
(* core/git.py: the conventional-commit parser *)

t_feat == <<"f", "e", "a", "t">>

t_fix == <<"f", "i", "x">>

t_docs == <<"d", "o", "c", "s">>

t_style == <<"s", "t", "y", "l", "e">>

t_refactor == <<"r", "e", "f", "a", "c", "t", "o", "r">>

t_perf == <<"p", "e", "r", "f">>

t_test == <<"t", "e", "s", "t">>

t_build == <<"b", "u", "i", "l", "d">>

t_ci == <<"c", "i">>

t_chore == <<"c", "h", "o", "r", "e">>

t_revert == <<"r", "e", "v", "e", "r", "t">>

t_other == <<"o", "t", "h", "e", "r">>

t_feature == <<"f", "e", "a", "t", "u", "r", "e">>

t_change == <<"c", "h", "a", "n", "g", "e">>

t_deprecate == <<"d", "e", "p", "r", "e", "c", "a", "t", "e">>

t_remove == <<"r", "e", "m", "o", "v", "e">>

t_bugfix == <<"b", "u", "g", "f", "i", "x">>

t_security == <<"s", "e", "c", "u", "r", "i", "t", "y">>

\* the keys of GitService.CONVENTIONAL_TYPES, in the order of the alternation
CONVENTIONAL_TYPES ==
    << t_feat, t_fix, t_docs, t_style, t_refactor, t_perf, t_test, t_build,
       t_ci, t_chore, t_revert >>

BREAKING_MARKER == <<"B", "R", "E", "A", "K", "I", "N", "G", " ", "C", "H", "A", "N", "G", "E", ":">>

NoMatch ==
    Normal(
    [matched |-> FALSE, type |-> <<>>, scope |-> None, bang |-> FALSE,
         description |-> <<>>, body |-> None])

\* the first index >= i of s that holds character c, or Len(s) + 1
FirstAt(s, c, i) ==
    IF \E j \in i..Len(s) : s[j] = c
    THEN Min({j \in i..Len(s) : s[j] = c})
    ELSE Len(s) + 1

\* The pattern after the type alternative, which ended before position p:
\*   (?:\((?P<scope>[^)]+)\))?(?P<breaking>!)?: (?P<description>[^\n]+)
\*   (?:\n\n(?P<body>.+))?$                                  with re.DOTALL
\* Each optional group is greedy; when it matches, the match without it fails
\* on the very next character, so the outcome below is the only one.
MatchAfterType(m, p) ==
    LET close == FirstAt(m, ")", p + 1)
        hasScope == p <= Len(m) /\ m[p] = "(" /\ close <= Len(m) /\ close > p + 1
        q == IF hasScope THEN close + 1 ELSE p
        hasBang == q <= Len(m) /\ m[q] = "!"
        r == IF hasBang THEN q + 1 ELSE q
        sepOk == OccursAt(m, <<":", " ">>, r)
        d == r + 2
        e == FirstAt(m, "\n", d)
        descOk == e > d
        hasBody == e + 2 <= Len(m) /\ m[e] = "\n" /\ m[e + 1] = "\n"
        atEnd == e = Len(m) + 1 \/ (e = Len(m) /\ m[e] = "\n")
    IN  IF sepOk /\ descOk /\ (hasBody \/ atEnd)
        THEN [matched |-> TRUE,
              type |-> SubSeq(m, 1, p - 1),
              scope |-> IF hasScope THEN Some(SubSeq(m, p + 1, close - 1)) ELSE None,
              bang |-> hasBang,
              description |-> SubSeq(m, d, e - 1),
              body |-> IF hasBody THEN Some(SubSeq(m, e + 2, Len(m))) ELSE None]
        ELSE NoMatch

\* re.match(pattern, message, re.DOTALL): the first type alternative, in the
\* order of CONVENTIONAL_TYPES, with which the rest of the pattern matches
re_match(m) ==
    LET ok == {i \in 1..Len(CONVENTIONAL_TYPES) :
                 /\ OccursAt(m, CONVENTIONAL_TYPES[i], 1)
                 /\ MatchAfterType(m, Len(CONVENTIONAL_TYPES[i]) + 1).matched}
    IN  IF ok = {} THEN NoMatch
        ELSE MatchAfterType(m, Len(CONVENTIONAL_TYPES[Min(ok)]) + 1)

\* parse_conventional_commit with a fallback that keeps the first line only
parse_fallback_first_line(message) ==
    LET match == re_match(message)
        inBody == match.body # None /\ Contains(match.body[1], BREAKING_MARKER)
    IN  IF ~match.matched
        THEN [type |-> t_other, scope |-> None,
              description |-> SubSeq(message, 1, FirstAt(message, "\n", 1) - 1),
              breaking |-> FALSE]
        ELSE [type |-> match.type, scope |-> match.scope,
              description |-> match.description,
              breaking |-> (match.bang \/ inBody)]

\* parse_conventional_commit that looks for the marker in the whole message
parse_marker_anywhere(message) ==
    LET match == re_match(message)
    IN  IF ~match.matched
        THEN [type |-> t_other, scope |-> None, description |-> message,
              breaking |-> FALSE]
        ELSE [type |-> match.type, scope |-> match.scope,
              description |-> match.description,
              breaking |-> (match.bang \/ Contains(message, BREAKING_MARKER))]

\* parse_conventional_commit that takes everything after ": " as description
parse_description_to_end(message) ==
    LET match == re_match(message)
        inBody == match.body # None /\ Contains(match.body[1], BREAKING_MARKER)
        start == Len(message) + 1 - Len(match.description)
                   - (IF match.body = None THEN 0 ELSE Len(match.body[1]) + 2)
    IN  IF ~match.matched
        THEN [type |-> t_other, scope |-> None, description |-> message,
              breaking |-> FALSE]
        ELSE [type |-> match.type, scope |-> match.scope,
              description |-> SubSeq(message, start, Len(message)),
              breaking |-> (match.bang \/ inBody)]

parse_conventional_commit(message) ==
    LET match == re_match(message)
        inBody == match.body # None /\ Contains(match.body[1], BREAKING_MARKER)
    IN  IF ~match.matched
        THEN [type |-> t_other, scope |-> None, description |-> message,
              breaking |-> FALSE]
        ELSE [type |-> match.type, scope |-> match.scope,
              description |-> match.description,
              breaking |-> (match.bang \/ inBody)]

----------------------------------------------------------------------------
(* The commit messages the parser is applied to: every concatenation of a    *)
(* head, a scope part, a breaking marker, a separator, a description and a   *)
(* tail, well-formed or not.                                                 *)

\* recognized types, and heads that are none
MsgHeads ==
    { <<"f", "e", "a", "t">>,
      <<"f", "i", "x">>,
      <<"c", "i">>,
      <<"f", "e", "a", "t", "u", "r", "e">>,
      <<"w", "i", "p">>,
      <<" ", "f", "e", "a", "t">> }

\* no scope, a scope, an empty one, an unclosed one, one over two lines
MsgScopes ==
    { <<>>,
      <<"(", "a", "p", "i", ")">>,
      <<"(", ")">>,
      <<"(", "a">>,
      <<"(", "a", "\n", "b", ")">> }

\* the breaking marker of the header
MsgBangs ==
    { <<>>,
      <<"!">> }

\* the separator, and one without its space
MsgSeps ==
    { <<":", " ">>,
      <<":">> }

\* descriptions: the empty one, and one that holds the body marker
MsgDescs ==
    { <<"x">>,
      <<>>,
      <<"B", "R", "E", "A", "K", "I", "N", "G", " ", "C", "H", "A", "N", "G", "E", ":", " ", "y">> }

\* what follows the first line
MsgTails ==
    { <<>>,
      <<"\n">>,
      <<"\n", "m", "o", "r", "e">>,
      <<"\n", "\n">>,
      <<"\n", "\n", "b", "o", "d", "y">>,
      <<"\n", "\n", "b", "\n">>,
      <<"\n", "\n", "\n">>,
      <<"\n", "\n", "B", "R", "E", "A", "K", "I", "N", "G", " ", "C", "H", "A", "N", "G", "E", ":", " ", "y">>,
      <<"\n", "\n", "n", "o", "t", "e", " ", "B", "R", "E", "A", "K", "I", "N", "G", " ", "C", "H", "A", "N", "G", "E", " ", "y">>,
      <<"\n", "B", "R", "E", "A", "K", "I", "N", "G", " ", "C", "H", "A", "N", "G", "E", ":", " ", "y">> }

Messages ==
    { h \o s \o b \o p \o d \o t :
        h \in MsgHeads, s \in MsgScopes, b \in MsgBangs, p \in MsgSeps,
        d \in MsgDescs, t \in MsgTails }

----------------------------------------------------------------------------
(* models/config.py *)

VALID_CATEGORIES ==
    { "Added", "Changed", "Deprecated", "Removed", "Fixed", "Security",
      "Documentation", "Performance", "Testing", "Build", "CI" }

\* the default of AutoScribeConfig.categories
DefaultCategories ==
    << "Added", "Changed", "Deprecated", "Removed", "Fixed", "Security" >>

VALID_AI_MODELS == { "gpt-4", "gpt-4-turbo", "gpt-3.5-turbo", "gpt-4o-mini" }

\* AutoScribeConfig(): the defaults of the fields (the paths are left out:
\* the output file is the one file of the model)
DefaultConfig ==
    [categories |-> DefaultCategories,
     github_release |-> TRUE,
     github_token |-> <<>>,
     ai_enabled |-> TRUE,
     ai_model |-> "gpt-4o-mini",
     openai_api_key |-> <<>>]

\* no generate command runs
NoCommand ==
    /\ config = DefaultConfig
    /\ options = <<>>
    /\ pc = "none"
    /\ locals = <<>>
    /\ releases = <<>>
    /\ exit_code = <<>>

----------------------------------------------------------------------------
(* models/changelog.py: the changelog document *)

\* datetime.now(), one fixed day
Now ==
    Normal(
    [year |-> 2024, month |-> 1, day |-> 5])

\* Changelog(): no versions, the default title
Changelog ==
    [versions |-> <<>>, title |-> "Changelog", last_updated |-> Now]

----------------------------------------------------------------------------
(* The parser under check: the message is drawn first, then parsed *)

Pending == [kind |-> "pending"]

InitParse ==
    /\ categories = DefaultCategories
    /\ ai_service = "None"
    /\ \E m \in Messages :
          call = [op |-> "parse_conventional_commit", message |-> m]
    /\ ret = Pending
    /\ changelog = Changelog
    /\ output_file = None
    /\ added = <<>>
    /\ NoCommand

ParseConventionalCommit ==
    /\ call.op = "parse_conventional_commit"
    /\ ret = Pending
    /\ ret' = [kind |-> "return", value |-> parse_conventional_commit(call.message)]
    /\ UNCHANGED <<categories, ai_service, call>>
    /\ UNCHANGED clivars
    /\ UNCHANGED logvars

NextParse == ParseConventionalCommit

SpecParse == InitParse /\ [][NextParse]_vars

----------------------------------------------------------------------------
(* models/changelog.py, core/git.py: records *)

GitCommit(hash, message, author) ==
    [hash |-> hash, message |-> message, author |-> author]

\* GitService.create_change_from_commit
create_change_from_commit(commit) ==
    Let(parse_conventional_commit(commit.message), LAMBDA p :
        [description |-> p.description,
         commit_hash |-> commit.hash,
         commit_message |-> commit.message,
         author |-> commit.author,
         type |-> p.type,
         scope |-> p.scope,
         breaking |-> p.breaking,
         ai_enhanced |-> FALSE,
         references |-> <<>>])

Return(v) == [kind |-> "return", value |-> v]

Raise(e) == [kind |-> "raise", error |-> e]

----------------------------------------------------------------------------
(* core/changelog.py: grouping of changes *)

\* ChangelogService.TYPE_TO_CATEGORY, in source order
TYPE_TO_CATEGORY ==
    << <<t_feat, "Added">>, <<t_feature, "Added">>,
       <<t_change, "Changed">>, <<t_refactor, "Changed">>,
       <<t_perf, "Changed">>, <<t_style, "Changed">>,
       <<t_deprecate, "Deprecated">>,
       <<t_remove, "Removed">>,
       <<t_fix, "Fixed">>, <<t_bugfix, "Fixed">>,
       <<t_security, "Security">>,
       <<t_docs, "Documentation">>,
       <<t_test, "Testing">>,
       <<t_build, "Build">>,
       <<t_ci, "CI">>,
       <<t_chore, "Changed">>, <<t_revert, "Changed">> >>

\* TYPE_TO_CATEGORY.get(type, default)
TYPE_TO_CATEGORY_get(type, default) ==
    IF \E i \in DOMAIN TYPE_TO_CATEGORY : TYPE_TO_CATEGORY[i][1] = type
    THEN TYPE_TO_CATEGORY[CHOOSE i \in DOMAIN TYPE_TO_CATEGORY :
                             TYPE_TO_CATEGORY[i][1] = type][2]
    ELSE default

\* A dict is a sequence of entries [name, changes] with distinct names, in
\* insertion order.
\* {cat: [] for cat in self.config.categories}: a repeated name keeps its
\* first position
EmptyDict(cats) ==
    LET firsts == SelectSeq([i \in DOMAIN cats |-> i],
                            LAMBDA i : \A j \in 1..(i - 1) : cats[j] # cats[i])
    IN  Tuple([k \in DOMAIN firsts |-> [name |-> cats[firsts[k]], changes |-> <<>>]])

HasKey(dict, key) == \E i \in DOMAIN dict : dict[i].name = key

\* dict[key].insert(0, change)
DictPrepend(dict, key, change) ==
    Tuple([i \in DOMAIN dict |->
             IF dict[i].name = key
             THEN [dict[i] EXCEPT !.changes = <<change>> \o @]
             ELSE dict[i]])

\* dict[key].append(change)
DictAppend(dict, key, change) ==
    Tuple([i \in DOMAIN dict |->
             IF dict[i].name = key
             THEN [dict[i] EXCEPT !.changes = Append(@, change)]
             ELSE dict[i]])

RECURSIVE CategorizeLoop(_, _, _)
\* the for loop of _categorize_changes from the i-th change on
CategorizeLoop(dict, changes, i) ==
    IF i > Len(changes) THEN Return(dict)
    ELSE LET change == changes[i]
             category == TYPE_TO_CATEGORY_get(change.type, "Changed")
         IN  IF change.breaking
             THEN IF HasKey(dict, "Changed")
                  THEN Let(DictAppend(dict, "Changed", change), LAMBDA d :
                           CategorizeLoop(d, changes, i + 1))
                  ELSE Raise("KeyError")
             ELSE IF HasKey(dict, category)
                  THEN Let(DictAppend(dict, category, change), LAMBDA d :
                           CategorizeLoop(d, changes, i + 1))
                  ELSE CategorizeLoop(dict, changes, i + 1)

RECURSIVE CategorizeLoopOwnCategory(_, _, _)
\* the loop without the override of breaking changes
CategorizeLoopOwnCategory(dict, changes, i) ==
    IF i > Len(changes) THEN Return(dict)
    ELSE LET change == changes[i]
             category == TYPE_TO_CATEGORY_get(change.type, "Changed")
         IN  IF HasKey(dict, category)
             THEN Let(DictAppend(dict, category, change), LAMBDA d :
                      CategorizeLoopOwnCategory(d, changes, i + 1))
             ELSE CategorizeLoopOwnCategory(dict, changes, i + 1)

\* the final dict comprehension of _categorize_changes
DropEmpty(dict) == SelectSeq(dict, LAMBDA e : e.changes # <<>>)

\* _categorize_changes that returns every configured category
categorize_keep_empty(cats, changes) ==
    Let(EmptyDict(cats), LAMBDA d : CategorizeLoop(d, changes, 1))

\* _categorize_changes that files a breaking change by its type
categorize_own_category(cats, changes) ==
    Let(EmptyDict(cats), LAMBDA d :
        Let(CategorizeLoopOwnCategory(d, changes, 1), LAMBDA r :
            IF r.kind = "raise" THEN r ELSE Return(DropEmpty(r.value))))

\* ChangelogService._categorize_changes
categorize_changes(cats, changes) ==
    Let(EmptyDict(cats), LAMBDA d :
        Let(CategorizeLoop(d, changes, 1), LAMBDA r :
            IF r.kind = "raise" THEN r ELSE Return(DropEmpty(r.value))))

----------------------------------------------------------------------------
(* services/openai.py: the enhancement service.  The provider is an input:  *)
(* what each is_available() check and each completion request comes to.     *)

Whitespace == {" ", "\n", "\t", "\r"}

\* str.strip()
Strip(s) ==
    LET keep == {i \in DOMAIN s : s[i] \notin Whitespace}
    IN  IF keep = {} THEN <<>>
        ELSE SubSeq(s, Min(keep), CHOOSE i \in keep : \A j \in keep : j <= i)

\* a provider outcome for one request:
\*   [kind |-> "down"]       is_available() is false at the start of the call
\*   [kind |-> "raise"]      the request raises (OpenAIError or another Exception)
\*   [kind |-> "response", content |-> c]   c = <<>>: no choices or no content
Down == [kind |-> "down"]

Raises == [kind |-> "raise"]

Response(c) == [kind |-> "response", content |-> c]

\* AIService.enhance_change_description without its exception handlers
enhance_change_description_no_except(change, out) ==
    IF out.kind = "down" THEN Return(change)
    ELSE IF out.kind = "raise" THEN Raise("OpenAIError")
    ELSE IF out.content # <<>>
         THEN Return([change EXCEPT !.description = Strip(out.content),
                                    !.ai_enhanced = TRUE])
         ELSE Return(change)

\* AIService.enhance_change_description that builds the new Change without
\* passing the breaking flag on
enhance_change_description_drop_breaking(change, out) ==
    IF out.kind = "down" THEN Return(change)
    ELSE IF out.kind = "raise" THEN Return(change)
    ELSE IF out.content # <<>>
         THEN Return([change EXCEPT !.description = Strip(out.content),
                                    !.breaking = FALSE,
                                    !.ai_enhanced = TRUE])
         ELSE Return(change)

\* AIService.enhance_change_description
enhance_change_description(change, out) ==
    IF out.kind = "down" THEN Return(change)
    ELSE IF out.kind = "raise" THEN Return(change)
    ELSE IF out.content # <<>>
         THEN Return([change EXCEPT !.description = Strip(out.content),
                                    !.ai_enhanced = TRUE])
         ELSE Return(change)

\* AIService.enhance_changes that gives the batch up at the first item the
\* provider did not enhance
enhance_changes_all_or_nothing(changes, available, outs) ==
    IF ~available THEN Return(changes)
    ELSE Let(Tuple([i \in DOMAIN changes |->
                      enhance_change_description(changes[i], outs[i])]),
             LAMBDA rs :
                 IF \E i \in DOMAIN rs : ~rs[i].value.ai_enhanced
                 THEN Return(changes)
                 ELSE Return(Tuple([i \in DOMAIN rs |-> rs[i].value])))

\* AIService.enhance_changes: an exception of one item ends the comprehension
enhance_changes(changes, available, outs) ==
    IF ~available THEN Return(changes)
    ELSE Let(Tuple([i \in DOMAIN changes |->
                      enhance_change_description(changes[i], outs[i])]),
             LAMBDA rs :
                 IF \E i \in DOMAIN rs : rs[i].kind = "raise"
                 THEN rs[Min({i \in DOMAIN rs : rs[i].kind = "raise"})]
                 ELSE Return(Tuple([i \in DOMAIN rs |-> rs[i].value])))

NoChangesSummary == <<"N", "o", " ", "c", "h", "a", "n", "g", "e", "s", " ", "i", "n", " ", "t", "h", "i", "s", " ", "v", "e", "r", "s", "i", "o", "n", ".">>

FallbackSummary == <<"N", "o", " ", "s", "i", "g", "n", "i", "f", "i", "c", "a", "n", "t", " ", "c", "h", "a", "n", "g", "e", "s", " ", "i", "n", " ", "t", "h", "i", "s", " ", "v", "e", "r", "s", "i", "o", "n", ".">>

\* `not changes_text`: no category of the version holds a change
NoChangesText(version) ==
    \A i \in DOMAIN version.categories : version.categories[i].changes = <<>>

\* AIService.generate_version_summary, a summary also when not available
generate_version_summary_always(version, available, out) ==
    IF out.kind = "response" /\ out.content # <<>>
    THEN Return([version EXCEPT !.summary = Some(Strip(out.content))])
    ELSE Return([version EXCEPT !.summary = Some(FallbackSummary)])

\* AIService.generate_version_summary; the Version returned when there is
\* no change to summarize is built without yanked and compare_url, which
\* take their defaults
generate_version_summary(version, available, out) ==
    IF ~available THEN Return(version)
    ELSE IF NoChangesText(version)
    THEN Return([number |-> version.number,
                 date |-> version.date,
                 categories |-> version.categories,
                 summary |-> Some(NoChangesSummary),
                 breaking_changes |-> version.breaking_changes,
                 yanked |-> FALSE,
                 compare_url |-> None])
    ELSE IF out.kind = "response" /\ out.content # <<>>
    THEN Return([version EXCEPT !.summary = Some(Strip(out.content))])
    ELSE Return([version EXCEPT !.summary = Some(FallbackSummary)])

----------------------------------------------------------------------------
(* core/changelog.py: the version assembler *)

\* ChangelogService.generate_version; commits is what the git service
\* returned, p what the provider does: p.a93 and p.a111 are the two
\* is_available() checks of generate_version, p.a168 the one of
\* enhance_changes, p.items the outcome per item, p.aS93 the check of
\* generate_version_summary and p.summary the outcome of its request
generate_version(cats, ai, version_number, commits, p) ==
    Let(Tuple([i \in DOMAIN commits |-> create_change_from_commit(commits[i])]),
        LAMBDA created :
    Let(IF ai # "None" /\ p.a93
        THEN enhance_changes(created, p.a168, p.items)
        ELSE Return(created),
        LAMBDA enhanced :
    IF enhanced.kind = "raise" THEN enhanced
    ELSE
    Let(enhanced.value, LAMBDA changes :
    Let(categorize_changes(cats, changes), LAMBDA categorized_changes :
    IF categorized_changes.kind = "raise" THEN categorized_changes
    ELSE
    Let([number |-> version_number,
         date |-> Now,
         categories |-> categorized_changes.value,
         summary |-> None,
         breaking_changes |-> (\E i \in DOMAIN changes : changes[i].breaking),
         yanked |-> FALSE,
         compare_url |-> None],
        LAMBDA version :
    IF ai # "None" /\ p.a111
    THEN generate_version_summary(version, p.aS93, p.summary)
    ELSE Return(version))))))

----------------------------------------------------------------------------
(* Inputs of the assembler *)

\* the longest list of commits the git service returns
MaxCommits == 3

\* the longest list of changes handed to _categorize_changes directly
MaxChanges == 2

\* the commits of the repository, in the order git log lists them
History ==
    Normal(
    << GitCommit("c1", <<"f", "e", "a", "t", ":", " ", "a", "d", "d", " ", "X">>, "Test User"),
           GitCommit("c2", <<"f", "i", "x", ":", " ", "r", "e", "s", "o", "l", "v", "e", " ", "Y">>, "Test User"),
           GitCommit("c3", <<"f", "e", "a", "t", "!", ":", " ", "r", "e", "m", "o", "v", "e", " ", "Z">>, "Test User"),
           GitCommit("c4", <<"d", "o", "c", "s", "(", "a", "p", "i", ")", ":", " ", "d", "e", "s", "c", "r", "i", "b", "e", " ", "W">>, "Test User"),
           GitCommit("c5", <<"b", "u", "m", "p", " ", "t", "h", "e", " ", "v", "e", "r", "s", "i", "o", "n">>, "Test User") >>)

\* the elements of s at the indices in I, in order
RECURSIVE Pick(_, _)
Pick(s, I) ==
    IF I = {} THEN <<>>
    ELSE <<s[Min(I)]>> \o Pick(s, I \ {Min(I)})

\* get_commits_since_tag: any part of the history, of at most MaxCommits
CommitLists ==
    Normal(
    { Pick(History, I) : I \in {J \in SUBSET DOMAIN History : Cardinality(J) <= MaxCommits} })

\* values of config.categories
CategoryLists ==
    Normal(
    { DefaultCategories,
          << "Added", "Fixed", "Changed" >>,
          << "Added", "Fixed" >>,
          << "Documentation", "Changed", "Added", "Changed" >>,
          << >> })

VersionNumbers == { "1.0.0" }

EnhancedContent == <<" ", "E", "n", "h", "a", "n", "c", "e", "d", " ", "d", "e", "s", "c", "r", "i", "p", "t", "i", "o", "n", "\n">>

SummaryContent == <<"A", "I", " ", "g", "e", "n", "e", "r", "a", "t", "e", "d", " ", "s", "u", "m", "m", "a", "r", "y", " ">>

ItemOutcomes ==
    Normal(
    { Down, Raises, Response(<<>>), Response(EnhancedContent) })

SummaryOutcomes ==
    Normal(
    { Raises, Response(<<>>), Response(SummaryContent) })

AllDown(n) == [i \in 1..n |-> Down]

\* what the provider does during one generate_version over n commits; a
\* request that is never made is listed as Down
ProviderScripts(n) ==
    LET enh == { [a93 |-> FALSE, a168 |-> FALSE, items |-> AllDown(n)],
                 [a93 |-> TRUE, a168 |-> FALSE, items |-> AllDown(n)] }
               \cup { [a93 |-> TRUE, a168 |-> TRUE, items |-> it] :
                        it \in [1..n -> ItemOutcomes] }
        sum == { [a111 |-> FALSE, aS93 |-> FALSE, summary |-> Down],
                 [a111 |-> TRUE, aS93 |-> FALSE, summary |-> Down] }
               \cup { [a111 |-> TRUE, aS93 |-> TRUE, summary |-> s] :
                        s \in SummaryOutcomes }
    IN  { [a93 |-> e.a93, a168 |-> e.a168, items |-> e.items,
           a111 |-> s.a111, aS93 |-> s.aS93, summary |-> s.summary] :
            e \in enh, s \in sum }

\* without an AIService no provider is asked anything
NoProvider(n) ==
    [a93 |-> FALSE, a168 |-> FALSE, items |-> AllDown(n),
     a111 |-> FALSE, aS93 |-> FALSE, summary |-> Down]

AllTypes == { TYPE_TO_CATEGORY[i][1] : i \in DOMAIN TYPE_TO_CATEGORY } \cup { t_other }

\* a Change built directly, as the unit tests build it
MakeChange(type, breaking) ==
    [description |-> type \o <<" ", "c", "h", "a", "n", "g", "e">>,
     commit_hash |-> "abc123",
     commit_message |-> type \o <<":", " ">> \o type \o <<" ", "c", "h", "a", "n", "g", "e">>,
     author |-> "Test User",
     type |-> type,
     scope |-> None,
     breaking |-> breaking,
     ai_enhanced |-> FALSE,
     references |-> <<>>]

CoreChanges ==
    Normal(
    { MakeChange(t_feat, FALSE), MakeChange(t_fix, FALSE), MakeChange(t_feat, TRUE) })

RECURSIVE SeqsUpTo(_, _)
\* the sequences over S of length at most n
SeqsUpTo(S, n) ==
    IF n = 0 THEN { <<>> }
    ELSE LET shorter == SeqsUpTo(S, n - 1)
         IN  shorter \cup { Append(s, x) : s \in shorter, x \in S }

Hashes == << "h1", "h2", "h3", "h4", "h5", "h6" >>

\* the i-th change of a list gets the i-th commit hash
Numbered(changes) ==
    [i \in DOMAIN changes |-> [changes[i] EXCEPT !.commit_hash = Hashes[i]]]

\* lists of changes: a first change of any type, breaking or not, and then
\* changes of the core kinds, at most MaxChanges in all
ChangeLists ==
    Normal(
    { <<>> } \cup
        { Numbered(<<MakeChange(t, b)>> \o rest) :
            t \in AllTypes, b \in BOOLEAN, rest \in SeqsUpTo(CoreChanges, MaxChanges - 1) })

----------------------------------------------------------------------------
(* Inputs of the document model: the versions that are added and rendered   *)

\* the largest number of versions added to one changelog
MaxVersions == 2

InitialRelease ==
    [description |-> <<"I", "n", "i", "t", "i", "a", "l", " ", "r", "e", "l", "e", "a", "s", "e">>,
          commit_hash |-> "abc123",
          commit_message |-> <<"f", "e", "a", "t", ":", " ", "I", "n", "i", "t", "i", "a", "l", " ", "r", "e", "l", "e", "a", "s", "e">>,
          author |-> "Test User",
          type |-> t_feat,
          scope |-> None,
          breaking |-> FALSE,
          ai_enhanced |-> FALSE,
          references |-> <<>>]

ResolveY ==
    [description |-> <<"r", "e", "s", "o", "l", "v", "e", " ", "Y">>,
          commit_hash |-> "def456",
          commit_message |-> <<"f", "i", "x", "(", "a", "p", "i", ")", ":", " ", "r", "e", "s", "o", "l", "v", "e", " ", "Y">>,
          author |-> "Test User",
          type |-> t_fix,
          scope |-> Some(<<"a", "p", "i">>),
          breaking |-> FALSE,
          ai_enhanced |-> FALSE,
          references |-> <<>>]

RemoveZ ==
    [description |-> <<"r", "e", "m", "o", "v", "e", " ", "Z">>,
          commit_hash |-> "c3",
          commit_message |-> <<"f", "e", "a", "t", "!", ":", " ", "r", "e", "m", "o", "v", "e", " ", "Z">>,
          author |-> "Test User",
          type |-> t_feat,
          scope |-> None,
          breaking |-> TRUE,
          ai_enhanced |-> FALSE,
          references |-> <<>>]

AddX ==
    [description |-> <<"a", "d", "d", " ", "X">>,
          commit_hash |-> "c1",
          commit_message |-> <<"f", "e", "a", "t", ":", " ", "a", "d", "d", " ", "X">>,
          author |-> "Test User",
          type |-> t_feat,
          scope |-> None,
          breaking |-> FALSE,
          ai_enhanced |-> FALSE,
          references |-> <<>>]

DropW ==
    [description |-> <<"d", "r", "o", "p", " ", "W">>,
          commit_hash |-> "c4",
          commit_message |-> <<"r", "e", "f", "a", "c", "t", "o", "r", "(", "c", "o", "r", "e", ")", "!", ":", " ", "d", "r", "o", "p", " ", "W">>,
          author |-> "Test User",
          type |-> t_refactor,
          scope |-> Some(<<"c", "o", "r", "e">>),
          breaking |-> TRUE,
          ai_enhanced |-> FALSE,
          references |-> <<>>]

\* a change that is not breaking and whose description begins with the marker
MarkerInDescription ==
    [description |-> <<"B", "R", "E", "A", "K", "I", "N", "G", " ", "C", "H", "A", "N", "G", "E", ":", " ", "y">>,
          commit_hash |-> "c5",
          commit_message |-> <<"f", "e", "a", "t", ":", " ", "B", "R", "E", "A", "K", "I", "N", "G", " ", "C", "H", "A", "N", "G", "E", ":", " ", "y">>,
          author |-> "Test User",
          type |-> t_feat,
          scope |-> None,
          breaking |-> FALSE,
          ai_enhanced |-> FALSE,
          references |-> <<>>]

MakeVersion(number, date, cats, summary, breaking_changes) ==
    [number |-> number, date |-> date, categories |-> cats,
     summary |-> summary, breaking_changes |-> breaking_changes,
     yanked |-> FALSE, compare_url |-> None]

MakeCategory(name, changes) == [name |-> name, changes |-> changes]

\* the versions handed to add_version and render_version: the release of
\* the tests; a second 1.0.0 with a summary, a scoped change and an empty
\* category; an Unreleased with a breaking change; a yanked 2.0.0 without
\* categories; an Unreleased whose flag is not the one of its changes; a
\* 1.1.0 with a marker in a description and an empty summary
VersionPool ==
    Normal(
    { MakeVersion("1.0.0", [year |-> 2024, month |-> 1, day |-> 1],
                  << MakeCategory("Added", <<InitialRelease>>) >>, None, FALSE),
      MakeVersion("1.0.0", [year |-> 2024, month |-> 3, day |-> 15],
                  << MakeCategory("Security", <<>>),
                     MakeCategory("Fixed", <<ResolveY>>) >>,
                  Some(<<"A", "I", " ", "g", "e", "n", "e", "r", "a", "t", "e", "d", " ", "s", "u", "m", "m", "a", "r", "y">>), FALSE),
      MakeVersion("Unreleased", [year |-> 2024, month |-> 11, day |-> 30],
                  << MakeCategory("Added", <<AddX>>),
                     MakeCategory("Changed", <<RemoveZ, ResolveY>>) >>, None, TRUE),
      [MakeVersion("2.0.0", [year |-> 2025, month |-> 10, day |-> 9],
                   <<>>, None, TRUE)
          EXCEPT !.yanked = TRUE,
                 !.compare_url = Some(<<"h", "t", "t", "p", "s", ":", "/", "/", "e", "x", "a", "m", "p", "l", "e", ".", "c", "o", "m", "/", "c", "o", "m", "p", "a", "r", "e", "/", "v", "1", ".", "0", ".", "0", ".", ".", ".", "v", "2", ".", "0", ".", "0">>)],
      MakeVersion("Unreleased", [year |-> 2025, month |-> 2, day |-> 28],
                  << MakeCategory("Removed", <<DropW>>) >>, None, FALSE),
      MakeVersion("1.1.0", [year |-> 2025, month |-> 12, day |-> 31],
                  << MakeCategory("Added", <<MarkerInDescription, AddX>>),
                     MakeCategory("Deprecated", <<>>) >>,
                  Some(<<>>), FALSE) })

\* the version numbers that are looked up
VersionNumbersOfPool == { "0.9.0", "1.0.0", "1.1.0", "2.0.0", "Unreleased" }

\* a changelog file left by an earlier run
ExistingFile ==
    <<"#", " ", "C", "h", "a", "n", "g", "e", "l", "o", "g", "\n", "\n", "A", "l", "l", " ", "n", "o", "t", "a", "b", "l", "e", " ", "c", "h", "a", "n", "g", "e", "s", " ", "t", "o", " ", "t", "h", "i", "s", " ", "p", "r", "o", "j", "e", "c", "t", " ", "w", "i", "l", "l", " ", "b", "e", " ", "d", "o", "c", "u", "m", "e", "n", "t", "e", "d", " ", "i", "n", " ", "t", "h", "i", "s", " ", "f", "i", "l", "e", ".", "\n", "\n", "#", "#", " ", "[", "1", ".", "0", ".", "0", "]", " ", "-", " ", "2", "0", "2", "4", "-", "0", "1", "-", "0", "1", "\n", "\n", "#", "#", "#", " ", "A", "d", "d", "e", "d", "\n", "-", " ", "I", "n", "i", "t", "i", "a", "l", " ", "r", "e", "l", "e", "a", "s", "e", "\n">>

----------------------------------------------------------------------------
(* core/git.py: the git log.  What the git process does is an input: it     *)
(* raises, or completes with a return code, its output and its errors.      *)

RECURSIVE Split(_, _)
\* Python's s.split(c) for a separator c of one character
Split(s, c) ==
    LET ks == { i \in DOMAIN s : s[i] = c }
    IN  IF ks = {} THEN <<s>>
        ELSE <<SubSeq(s, 1, Min(ks) - 1)>> \o Split(SubSeq(s, Min(ks) + 1, Len(s)), c)

Completed(returncode, stdout, stderr) ==
    [kind |-> "completed", returncode |-> returncode,
     stdout |-> stdout, stderr |-> stderr]

\* GitService._run_command: subprocess.run with check=True, then the test
\* for errors without output; every failure becomes a GitCommandError
run_command(result) ==
    IF result.kind = "exception" THEN Raise("GitCommandError")
    ELSE IF result.returncode # 0 THEN Raise("GitCommandError")
    ELSE IF result.stderr # <<>> /\ result.stdout = <<>> THEN Raise("GitCommandError")
    ELSE Return(Strip(result.stdout))

\* datetime.fromisoformat accepts the text: a date, "T", a time and an
\* offset, as git writes %aI
IsIsoDate(text) ==
    /\ Len(text) = 25
    /\ text[5] = "-" /\ text[8] = "-" /\ text[11] = "T"
    /\ text[14] = ":" /\ text[17] = ":" /\ text[20] \in { "+", "-" } /\ text[23] = ":"
    /\ \A i \in (1..25) \ { 5, 8, 11, 14, 17, 20, 23 } :
          text[i] \in { "0", "1", "2", "3", "4", "5", "6", "7", "8", "9" }

RECURSIVE commits_of_lines(_, _)
\* the loop of get_commits_since_tag over the lines of the output, from
\* index i on: an empty line is skipped, a line is unpacked into four fields
commits_of_lines(lines, i) ==
    IF i > Len(lines) THEN Return(<<>>)
    ELSE IF lines[i] = <<>> THEN commits_of_lines(lines, i + 1)
    ELSE Let(Split(lines[i], "|"), LAMBDA fields :
         IF Len(fields) # 4 THEN Raise("ValueError")
         ELSE IF ~IsIsoDate(fields[4]) THEN Raise("ValueError")
         ELSE Let(commits_of_lines(lines, i + 1), LAMBDA rest :
              IF rest.kind = "raise" THEN rest
              ELSE Return(<< [hash |-> fields[1], message |-> fields[2],
                              author |-> fields[3], date |-> fields[4]] >>
                          \o rest.value)))

\* GitService.get_commits_since_tag, the GitCommandError not caught
get_commits_since_tag_propagating(tag, result) ==
    Let(run_command(result), LAMBDA output :
        IF output.kind = "raise" THEN output
        ELSE commits_of_lines(Split(output.value, "\n"), 1))

\* GitService.get_commits_since_tag; result is what the git log process
\* of the command for this tag did
get_commits_since_tag(tag, result) ==
    Let(run_command(result), LAMBDA output :
        IF output.kind = "raise" THEN Return(<<>>)
        ELSE commits_of_lines(Split(output.value, "\n"), 1))

\* the tags get_commits_since_tag is called with
Tags == { None, Some("v1.0.0"), Some("non-existent-tag") }

LogLine1 ==
    <<"a", "1", "b", "2", "c", "3", "|", "f", "e", "a", "t", ":", " ", "a", "d", "d", " ", "X", "|", "T", "e", "s", "t", " ", "U", "s", "e", "r", "|", "2", "0", "2", "4", "-", "0", "1", "-", "0", "1", "T", "1", "0", ":", "0", "0", ":", "0", "0", "+", "0", "1", ":", "0", "0">>

LogLine2 ==
    <<"d", "4", "e", "5", "f", "6", "|", "f", "i", "x", ":", " ", "r", "e", "s", "o", "l", "v", "e", " ", "Y", "|", "T", "e", "s", "t", " ", "U", "s", "e", "r", "|", "2", "0", "2", "4", "-", "0", "1", "-", "0", "2", "T", "0", "9", ":", "3", "0", ":", "0", "0", "+", "0", "0", ":", "0", "0">>

\* a commit whose subject holds the field separator
LogLineBar ==
    <<"0", "a", "0", "b", "0", "c", "|", "d", "o", "c", "s", ":", " ", "a", "|", "b", "|", "T", "e", "s", "t", " ", "U", "s", "e", "r", "|", "2", "0", "2", "4", "-", "0", "1", "-", "0", "3", "T", "0", "8", ":", "0", "0", ":", "0", "0", "+", "0", "0", ":", "0", "0">>

FatalBadRevision ==
    <<"f", "a", "t", "a", "l", ":", " ", "a", "m", "b", "i", "g", "u", "o", "u", "s", " ", "a", "r", "g", "u", "m", "e", "n", "t", " ", "'", "n", "o", "n", "-", "e", "x", "i", "s", "t", "e", "n", "t", "-", "t", "a", "g", ".", ".", "H", "E", "A", "D", "'", ":", " ", "u", "n", "k", "n", "o", "w", "n", " ", "r", "e", "v", "i", "s", "i", "o", "n", "\n">>

\* what the git log process can do: fail to start; exit with an error; write
\* only to its errors; write nothing; write commits; write commits and a
\* warning; write a commit with a separator in its subject
GitResults ==
    Normal(
    { [kind |-> "exception"],
      Completed(128, <<>>, FatalBadRevision),
      Completed(0, <<>>, <<"w", "a", "r", "n", "i", "n", "g", ":", " ", "x", "\n">>),
      Completed(0, <<>>, <<>>),
      Completed(0, LogLine1 \o <<"\n">> \o LogLine2 \o <<"\n">>, <<>>),
      Completed(0, LogLine1 \o <<"\n">>, <<"w", "a", "r", "n", "i", "n", "g", ":", " ", "x", "\n">>),
      Completed(0, LogLine1 \o <<"\n">> \o LogLineBar \o <<"\n">>, <<>>) })

----------------------------------------------------------------------------
(* core/git.py: the latest tag.  What `git tag -l 'v*'` does is an input.   *)

RECURSIVE DecimalValue(_)
\* the number a text of decimal digits stands for
DecimalValue(text) ==
    IF text = <<>> THEN 0
    ELSE 10 * DecimalValue(SubSeq(text, 1, Len(text) - 1))
         + (CHOOSE d \in 0..9 : DecimalDigits[d + 1] = text[Len(text)])

\* Python's int(n) of a text without sign, blank or underscore: a
\* ValueError unless it is one or more decimal digits
int(n) ==
    IF n = <<>> \/ \E i \in DOMAIN n : n[i] \notin { DecimalDigits[d] : d \in 1..10 }
    THEN Raise("ValueError")
    ELSE Return(DecimalValue(n))

\* the sort key of a tag: [int(n) for n in t[1:].split(".")]
tag_key(t) ==
    Let(Split(SubSeq(t, 2, Len(t)), "."), LAMBDA parts :
        IF \E i \in DOMAIN parts : int(parts[i]).kind = "raise"
        THEN Raise("ValueError")
        ELSE Return(Tuple([i \in DOMAIN parts |-> int(parts[i]).value])))

\* Python's a < b of two lists of integers
list_lt(a, b) ==
    LET differ == { i \in 1..Min({Len(a), Len(b)}) : a[i] # b[i] }
    IN  IF differ = {} THEN Len(a) < Len(b)
        ELSE a[Min(differ)] < b[Min(differ)]

\* sorted(tags, key=..., reverse=True)[0]: the sort is stable, so of the
\* tags with the greatest key the first of the list comes first
sorted_reverse_first(tags, keys) ==
    tags[Min({ i \in DOMAIN tags :
                  \A j \in DOMAIN tags : ~list_lt(keys[i], keys[j]) })]

\* GitService.get_latest_tag; result is what the git tag process did
get_latest_tag(result) ==
    Let(run_command(result), LAMBDA output :
        IF output.kind = "raise" THEN Return(None)
        ELSE Let(Split(output.value, "\n"), LAMBDA tags :
             IF tags[1] = <<>> THEN Return(None)
             ELSE IF \E i \in DOMAIN tags : tag_key(tags[i]).kind = "raise"
             THEN Return(None)
             ELSE Return(Some(sorted_reverse_first(tags,
                      Tuple([i \in DOMAIN tags |-> tag_key(tags[i]).value]))))))

\* how many tags a repository of the inputs has at most
MaxTags == 3

TagV1_9_0 ==
    <<"v", "1", ".", "9", ".", "0">>

TagV1_10_0 ==
    <<"v", "1", ".", "1", "0", ".", "0">>

TagV2_0_0 ==
    <<"v", "2", ".", "0", ".", "0">>

TagBeta ==
    <<"v", "1", ".", "0", ".", "0", "-", "b", "e", "t", "a">>

TagV1_10 ==
    <<"v", "1", ".", "1", "0">>

TagV01_10_0 ==
    <<"v", "0", "1", ".", "1", "0", ".", "0">>

\* the tags a repository can have that match v*: releases, a release with
\* two components, one written with a leading zero, and a pre-release
TagPool ==
    Normal({ TagV1_9_0, TagV1_10_0, TagV2_0_0, TagBeta, TagV1_10, TagV01_10_0 })

\* the lists of at most n different tags, in any order
TagLists(n) ==
    { l \in UNION { [1..k -> TagPool] : k \in 0..n } :
          \A i, j \in DOMAIN l : i # j => l[i] # l[j] }

RECURSIVE JoinLines(_, _)
\* the lines from index i on, each one ended by a line feed
JoinLines(lines, i) ==
    IF i > Len(lines) THEN <<>>
    ELSE lines[i] \o <<"\n">> \o JoinLines(lines, i + 1)

\* what the git tag process can do: fail to start; exit with an error; list
\* the tags of the repository, one a line
TagResults ==
    Normal(
    { [kind |-> "exception"],
      Completed(128, <<>>, <<"f", "a", "t", "a", "l", "\n">>) } \cup
    { Completed(0, JoinLines(l, 1), <<>>) : l \in TagLists(MaxTags) })

----------------------------------------------------------------------------
(* utils/version.py: the semantic version and its order *)

\* the characters of a version text, in the order of their code points
CodePoints ==
    <<"+", "-", ".">> \o DecimalDigits \o
    <<"a", "b", "c", "d", "e", "f", "g", "h", "i", "j", "k", "l", "m",
      "n", "o", "p", "q", "r", "s", "t", "u", "v", "w", "x", "y", "z">>

\* Python's ord(c), up to the order
ord(c) == CHOOSE i \in DOMAIN CodePoints : CodePoints[i] = c

\* Python's a < b of two str: the code points at the first position where
\* they differ decide, and a proper prefix is smaller
str_lt(a, b) ==
    LET differ == { i \in 1..Min({Len(a), Len(b)}) : a[i] # b[i] }
    IN  IF differ = {} THEN Len(a) < Len(b)
        ELSE ord(a[Min(differ)]) < ord(b[Min(differ)])

\* utils.version.Version: a dataclass
Version(major, minor, patch, prerelease, build) ==
    [major |-> major, minor |-> minor, patch |-> patch,
     prerelease |-> prerelease, build |-> build]

\* Version._compare_prerelease(other)
compare_prerelease(self, other) ==
    IF self.prerelease = None /\ other = None THEN 0
    ELSE IF self.prerelease = None THEN 1
    ELSE IF other = None THEN 0 - 1
    ELSE IF str_lt(self.prerelease[1], other[1]) THEN 0 - 1
    ELSE IF str_lt(other[1], self.prerelease[1]) THEN 1
    ELSE 0

\* Version.__lt__(other) for another Version
Version_lt(self, other) ==
    IF <<self.major, self.minor, self.patch>>
           # <<other.major, other.minor, other.patch>>
    THEN list_lt(<<self.major, self.minor, self.patch>>,
                 <<other.major, other.minor, other.patch>>)
    ELSE compare_prerelease(self, other.prerelease) < 0

\* the prereleases of the versions compared: none, one identifier, numeric
\* identifiers of one and of two digits, and an identifier with a hyphen
Prereleases ==
    Normal(
    { None,
      Some(<<"a", "l", "p", "h", "a">>), Some(<<"a", "l", "p", "h", "a", ".", "2">>), Some(<<"a", "l", "p", "h", "a", ".", "1", "0">>), Some(<<"a", "l", "p", "h", "a", "-", "x">>), Some(<<"1">>) })

\* the versions compared
UtilVersions ==
    Normal(
    { Version(major, minor, 0, prerelease, build) :
          major \in { 1, 2 }, minor \in { 2, 10 }, prerelease \in Prereleases,
          build \in { None, Some(<<"b", "1">>) } })

----------------------------------------------------------------------------
(* The assembler as a state machine: a service is constructed, then one      *)
(* operation is called on it.                                                *)

Init ==
    /\ categories \in CategoryLists
    /\ ai_service \in { "None", "AIService" }
    /\ call = [op |-> "init"]
    /\ ret = Pending
    /\ changelog = Changelog
    /\ output_file = None
    /\ added = <<>>
    /\ NoCommand

\* ChangelogService._categorize_changes(changes)
CategorizeChanges ==
    /\ call.op = "init"
    /\ \E changes \in ChangeLists :
          /\ call' = [op |-> "_categorize_changes", changes |-> changes]
          /\ ret' = categorize_changes(categories, changes)
    /\ UNCHANGED <<categories, ai_service>>
    /\ UNCHANGED clivars
    /\ UNCHANGED logvars

\* AIService.enhance_changes(changes), the changes being those of some commits
EnhanceChanges ==
    /\ call.op = "init"
    /\ ai_service = "AIService"
    /\ \E commits \in CommitLists, available \in BOOLEAN :
          \E changes \in { Tuple([i \in DOMAIN commits |->
                                      create_change_from_commit(commits[i])]) } :
              \E outs \in (IF available
                           THEN [DOMAIN changes -> ItemOutcomes]
                           ELSE { AllDown(Len(changes)) }) :
                  /\ call' = [op |-> "enhance_changes", changes |-> changes,
                              available |-> available, outcomes |-> outs]
                  /\ ret' = enhance_changes(changes, available, outs)
    /\ UNCHANGED <<categories, ai_service>>
    /\ UNCHANGED clivars
    /\ UNCHANGED logvars

\* ChangelogService.generate_version(version_number)
GenerateVersion ==
    /\ call.op = "init"
    /\ \E version_number \in VersionNumbers, commits \in CommitLists :
          \E p \in (IF ai_service = "None"
                    THEN { NoProvider(Len(commits)) }
                    ELSE ProviderScripts(Len(commits))) :
              /\ call' = [op |-> "generate_version",
                          version_number |-> version_number,
                          commits |-> commits, provider |-> p]
              /\ ret' = generate_version(categories, ai_service, version_number,
                                         commits, p)
    /\ UNCHANGED <<categories, ai_service>>
    /\ UNCHANGED clivars
    /\ UNCHANGED logvars

\* AIService.generate_version_summary(version)
GenerateVersionSummary ==
    /\ call.op = "init"
    /\ ai_service = "AIService"
    /\ \E version \in VersionPool, available \in BOOLEAN :
          \E out \in (IF available THEN SummaryOutcomes ELSE { Down }) :
              /\ call' = [op |-> "generate_version_summary", version |-> version,
                          available |-> available, outcome |-> out]
              /\ ret' = generate_version_summary(version, available, out)
    /\ UNCHANGED <<categories, ai_service>>
    /\ UNCHANGED clivars
    /\ UNCHANGED logvars

\* GitService.get_commits_since_tag(tag)
GetCommitsSinceTag ==
    /\ call.op = "init"
    /\ \E tag \in Tags, result \in GitResults :
          /\ call' = [op |-> "get_commits_since_tag", tag |-> tag, result |-> result]
          /\ ret' = get_commits_since_tag(tag, result)
    /\ UNCHANGED <<categories, ai_service>>
    /\ UNCHANGED clivars
    /\ UNCHANGED logvars

\* GitService.get_latest_tag()
GetLatestTag ==
    /\ call.op = "init"
    /\ \E result \in TagResults :
          /\ call' = [op |-> "get_latest_tag", result |-> result]
          /\ ret' = get_latest_tag(result)
    /\ UNCHANGED <<categories, ai_service>>
    /\ UNCHANGED clivars
    /\ UNCHANGED logvars

\* a < b of two utils.version.Version
VersionLt ==
    /\ call.op = "init"
    /\ \E self \in UtilVersions, other \in UtilVersions :
          /\ call' = [op |-> "__lt__", self |-> self, other |-> other]
          /\ ret' = Return(Version_lt(self, other))
    /\ UNCHANGED <<categories, ai_service>>
    /\ UNCHANGED clivars
    /\ UNCHANGED logvars

Next ==
    \/ CategorizeChanges
    \/ EnhanceChanges
    \/ GenerateVersion
    \/ GenerateVersionSummary
    \/ GetCommitsSinceTag
    \/ GetLatestTag
    \/ VersionLt

Spec == Init /\ [][Next]_vars

----------------------------------------------------------------------------
(* models/changelog.py: the operations of the changelog document *)

\* s in reverse order
Reverse(s) == [i \in 1..Len(s) |-> s[Len(s) + 1 - i]]

\* Changelog.add_version, a version whose number is present replaced
add_version_replacing(log, version) ==
    [log EXCEPT
        !.versions = <<version>> \o SelectSeq(@, LAMBDA v : v.number # version.number),
        !.last_updated = Now]

\* Changelog.add_version
add_version(log, version) ==
    [log EXCEPT !.versions = <<version>> \o @, !.last_updated = Now]

RECURSIVE get_version_from(_, _, _)
\* the loop of Changelog.get_version, from index i on
get_version_from(versions, version_number, i) ==
    IF i > Len(versions) THEN None
    ELSE IF versions[i].number = version_number THEN Some(versions[i])
    ELSE get_version_from(versions, version_number, i + 1)

\* Changelog.get_version, the last match returned
get_version_last_match(log, version_number) ==
    get_version_from(Reverse(log.versions), version_number, 1)

\* Changelog.get_version
get_version(log, version_number) ==
    get_version_from(log.versions, version_number, 1)

RECURSIVE get_latest_version_from(_, _)
\* the loop of Changelog.get_latest_version, from index i on
get_latest_version_from(versions, i) ==
    IF i > Len(versions) THEN None
    ELSE IF versions[i].number # "Unreleased" THEN Some(versions[i])
    ELSE get_latest_version_from(versions, i + 1)

\* Changelog.get_latest_version, "Unreleased" not skipped
get_latest_version_first(log) ==
    IF log.versions = <<>> THEN None ELSE Some(log.versions[1])

\* Changelog.get_latest_version
get_latest_version(log) ==
    get_latest_version_from(log.versions, 1)

\* Changelog.get_unreleased_changes
get_unreleased_changes(log) ==
    get_version(log, "Unreleased")

----------------------------------------------------------------------------
(* core/changelog.py: rendering and saving.  A version number and a         *)
(* category name are strings of the model; Chars gives their characters.    *)

Chars(name) ==
    CASE name = "Added" -> <<"A", "d", "d", "e", "d">>
      [] name = "Changed" -> <<"C", "h", "a", "n", "g", "e", "d">>
      [] name = "Deprecated" -> <<"D", "e", "p", "r", "e", "c", "a", "t", "e", "d">>
      [] name = "Removed" -> <<"R", "e", "m", "o", "v", "e", "d">>
      [] name = "Fixed" -> <<"F", "i", "x", "e", "d">>
      [] name = "Security" -> <<"S", "e", "c", "u", "r", "i", "t", "y">>
      [] name = "Documentation" -> <<"D", "o", "c", "u", "m", "e", "n", "t", "a", "t", "i", "o", "n">>
      [] name = "Performance" -> <<"P", "e", "r", "f", "o", "r", "m", "a", "n", "c", "e">>
      [] name = "Testing" -> <<"T", "e", "s", "t", "i", "n", "g">>
      [] name = "Build" -> <<"B", "u", "i", "l", "d">>
      [] name = "CI" -> <<"C", "I">>
      [] name = "Unreleased" -> <<"U", "n", "r", "e", "l", "e", "a", "s", "e", "d">>
      [] name = "0.9.0" -> <<"0", ".", "9", ".", "0">>
      [] name = "1.0.0" -> <<"1", ".", "0", ".", "0">>
      [] name = "1.1.0" -> <<"1", ".", "1", ".", "0">>
      [] name = "2.0.0" -> <<"2", ".", "0", ".", "0">>
      [] name = "1.9.0" -> <<"1", ".", "9", ".", "0">>
      [] name = "1.10.0" -> <<"1", ".", "1", "0", ".", "0">>
      [] name = "1.10" -> <<"1", ".", "1", "0">>
      [] name = "01.10.0" -> <<"0", "1", ".", "1", "0", ".", "0">>
      [] name = "" -> <<>>

RECURSIVE Decimal(_)
\* the decimal digits of a natural number
Decimal(n) ==
    IF n < 10 THEN <<DecimalDigits[n + 1]>>
    ELSE Decimal(n \div 10) \o <<DecimalDigits[(n % 10) + 1]>>

\* %m and %d: two digits, zero-padded
TwoDigits(n) ==
    IF n < 10 THEN <<"0">> \o Decimal(n) ELSE Decimal(n)

\* date.strftime('%Y-%m-%d'), for a year of four digits
strftime(date) ==
    Decimal(date.year) \o <<"-">> \o TwoDigits(date.month) \o <<"-">>
        \o TwoDigits(date.day)

BREAKING_HEADING ==
    <<"#", "#", "#", " ", "U+26A0", "U+FE0F", " ", "B", "R", "E", "A", "K", "I", "N", "G", " ", "C", "H", "A", "N", "G", "E", "S", "\n", "\n">>

BREAKING_PREFIX ==
    <<"B", "R", "E", "A", "K", "I", "N", "G", " ", "C", "H", "A", "N", "G", "E", ":", " ">>

\* the line of one change
render_change(change) ==
    <<"-", " ">>
        \o (IF change.breaking THEN BREAKING_PREFIX ELSE <<>>)
        \o (IF change.scope # None /\ change.scope[1] # <<>>
            THEN <<"*", "*">> \o change.scope[1] \o <<"*", "*", ":", " ">>
            ELSE <<>>)
        \o change.description \o <<"\n">>

RECURSIVE render_changes(_, _)
\* the lines of the changes of a category, from index i on
render_changes(changes, i) ==
    IF i > Len(changes) THEN <<>>
    ELSE render_change(changes[i]) \o render_changes(changes, i + 1)

RECURSIVE render_categories(_, _)
\* the blocks of the categories of a version, from index i on
render_categories(cats, i) ==
    IF i > Len(cats) THEN <<>>
    ELSE (IF cats[i].changes = <<>> THEN <<>>
          ELSE <<"#", "#", "#", " ">> \o Chars(cats[i].name) \o <<"\n", "\n">>
                   \o render_changes(cats[i].changes, 1) \o <<"\n">>)
         \o render_categories(cats, i + 1)

RECURSIVE render_categories_keep_empty(_, _)
render_categories_keep_empty(cats, i) ==
    IF i > Len(cats) THEN <<>>
    ELSE <<"#", "#", "#", " ">> \o Chars(cats[i].name) \o <<"\n", "\n">>
             \o render_changes(cats[i].changes, 1) \o <<"\n">>
         \o render_categories_keep_empty(cats, i + 1)

\* ChangelogService.render_version, every category rendered
render_version_keep_empty(version) ==
    <<"#", "#", " ", "[">> \o Chars(version.number) \o <<"]", " ", "-", " ">>
        \o strftime(version.date) \o <<"\n", "\n">>
        \o (IF version.summary # None /\ version.summary[1] # <<>>
            THEN version.summary[1] \o <<"\n", "\n">>
            ELSE <<>>)
        \o (IF version.breaking_changes THEN BREAKING_HEADING ELSE <<>>)
        \o render_categories_keep_empty(version.categories, 1)

\* ChangelogService.render_version, the breaking heading after the categories
render_version_heading_last(version) ==
    <<"#", "#", " ", "[">> \o Chars(version.number) \o <<"]", " ", "-", " ">>
        \o strftime(version.date) \o <<"\n", "\n">>
        \o (IF version.summary # None /\ version.summary[1] # <<>>
            THEN version.summary[1] \o <<"\n", "\n">>
            ELSE <<>>)
        \o render_categories(version.categories, 1)
        \o (IF version.breaking_changes THEN BREAKING_HEADING ELSE <<>>)

\* ChangelogService.render_version
render_version(version) ==
    <<"#", "#", " ", "[">> \o Chars(version.number) \o <<"]", " ", "-", " ">>
        \o strftime(version.date) \o <<"\n", "\n">>
        \o (IF version.summary # None /\ version.summary[1] # <<>>
            THEN version.summary[1] \o <<"\n", "\n">>
            ELSE <<>>)
        \o (IF version.breaking_changes THEN BREAKING_HEADING ELSE <<>>)
        \o render_categories(version.categories, 1)

\* the text _save_changelog starts the file with
FILE_HEADER ==
    <<"#", " ", "C", "h", "a", "n", "g", "e", "l", "o", "g", "\n", "\n">>
    \o <<"A", "l", "l", " ", "n", "o", "t", "a", "b", "l", "e", " ", "c", "h", "a", "n", "g", "e", "s", " ", "t", "o", " ", "t", "h", "i", "s", " ", "p", "r", "o", "j", "e", "c", "t", " ", "w", "i", "l", "l", " ", "b", "e", " ", "d", "o", "c", "u", "m", "e", "n", "t", "e", "d", " ", "i", "n", " ", "t", "h", "i", "s", " ", "f", "i", "l", "e", ".", "\n", "\n">>
    \o <<"T", "h", "e", " ", "f", "o", "r", "m", "a", "t", " ", "i", "s", " ", "b", "a", "s", "e", "d", " ", "o", "n", " ", "[", "K", "e", "e", "p", " ", "a", " ", "C", "h", "a", "n", "g", "e", "l", "o", "g", "]", "(", "h", "t", "t", "p", "s", ":", "/", "/", "k", "e", "e", "p", "a", "c", "h", "a", "n", "g", "e", "l", "o", "g", ".", "c", "o", "m", "/", "e", "n", "/", "1", ".", "1", ".", "0", "/", ")", ",", "\n">>
    \o <<"a", "n", "d", " ", "t", "h", "i", "s", " ", "p", "r", "o", "j", "e", "c", "t", " ", "a", "d", "h", "e", "r", "e", "s", " ", "t", "o", " ", "[", "S", "e", "m", "a", "n", "t", "i", "c", " ", "V", "e", "r", "s", "i", "o", "n", "i", "n", "g", "]", "(", "h", "t", "t", "p", "s", ":", "/", "/", "s", "e", "m", "v", "e", "r", ".", "o", "r", "g", "/", "s", "p", "e", "c", "/", "v", "2", ".", "0", ".", "0", ".", "h", "t", "m", "l", ")", ".", "\n", "\n">>

RECURSIVE save_versions(_, _)
\* the loop of _save_changelog, from index i on
save_versions(versions, i) ==
    IF i > Len(versions) THEN <<>>
    ELSE render_version(versions[i]) \o <<"\n">> \o save_versions(versions, i + 1)

\* ChangelogService._save_changelog: the text written to the file
save_changelog(log) ==
    FILE_HEADER \o save_versions(log.versions, 1)

\* ChangelogService._load_or_create_changelog, the file parsed back
load_versions_of_file(file) ==
    IF file # None /\ Contains(file[1], <<"#", "#", " ", "[">>)
    THEN [Changelog EXCEPT !.versions =
              << [number |-> "1.0.0", date |-> Now, categories |-> <<>>,
                  summary |-> None, breaking_changes |-> FALSE,
                  yanked |-> FALSE, compare_url |-> None] >>]
    ELSE Changelog

\* ChangelogService._load_or_create_changelog
load_or_create_changelog(file) ==
    IF file # None
    THEN Changelog
    ELSE Changelog

----------------------------------------------------------------------------
(* The changelog service as a state machine: the service is constructed,    *)
(* versions are added, looked up and rendered, and a later run constructs   *)
(* a new service over the file the earlier one wrote.  A run in which an    *)
(* operation raised is over: the next step is a new run.                    *)

InitLog ==
    /\ categories = DefaultCategories
    /\ ai_service = "None"
    /\ output_file \in { None, Some(ExistingFile) }
    /\ call = [op |-> "__init__", output_exists |-> output_file # None]
    /\ ret = Return(None)
    /\ changelog = load_or_create_changelog(output_file)
    /\ added = <<>>
    /\ NoCommand

\* ChangelogService.__init__ in a new run
CreateService ==
    /\ ret.kind # "pending"
    /\ call' = [op |-> "__init__", output_exists |-> output_file # None]
    /\ ret' = Return(None)
    /\ changelog' = load_or_create_changelog(output_file)
    /\ added' = <<>>
    /\ UNCHANGED <<categories, ai_service, output_file>>
    /\ UNCHANGED clivars

\* ChangelogService.add_version(version): the document is updated, then the
\* file is written; open() either succeeds or raises
AddVersion ==
    /\ ret.kind = "return"
    /\ Len(changelog.versions) < MaxVersions
    /\ \E version \in VersionPool, io \in { "ok", "OSError" } :
          /\ call' = [op |-> "add_version", version |-> version, io |-> io]
          /\ changelog' = add_version(changelog, version)
          /\ added' = Append(added, version)
          /\ IF io = "ok"
             THEN /\ output_file' = Some(save_changelog(changelog'))
                  /\ ret' = Return(None)
             ELSE /\ output_file' = output_file
                  /\ ret' = Raise("OSError")
    /\ UNCHANGED <<categories, ai_service>>
    /\ UNCHANGED clivars

\* ChangelogService.get_version(version_number)
GetVersion ==
    /\ ret.kind = "return"
    /\ \E version_number \in VersionNumbersOfPool :
          /\ call' = [op |-> "get_version", version_number |-> version_number]
          /\ ret' = Return(get_version(changelog, version_number))
    /\ UNCHANGED <<categories, ai_service>>
    /\ UNCHANGED clivars
    /\ UNCHANGED logvars

\* ChangelogService.get_latest_version()
GetLatestVersion ==
    /\ ret.kind = "return"
    /\ call' = [op |-> "get_latest_version"]
    /\ ret' = Return(get_latest_version(changelog))
    /\ UNCHANGED <<categories, ai_service>>
    /\ UNCHANGED clivars
    /\ UNCHANGED logvars

\* ChangelogService.get_unreleased_changes()
GetUnreleasedChanges ==
    /\ ret.kind = "return"
    /\ call' = [op |-> "get_unreleased_changes"]
    /\ ret' = Return(get_version(changelog, "Unreleased"))
    /\ UNCHANGED <<categories, ai_service>>
    /\ UNCHANGED clivars
    /\ UNCHANGED logvars

\* ChangelogService.render_version(version)
RenderVersion ==
    /\ ret.kind = "return"
    /\ \E version \in VersionPool :
          /\ call' = [op |-> "render_version", version |-> version]
          /\ ret' = Return(render_version(version))
    /\ UNCHANGED <<categories, ai_service>>
    /\ UNCHANGED clivars
    /\ UNCHANGED logvars

NextLog ==
    \/ CreateService
    \/ AddVersion
    \/ GetVersion
    \/ GetLatestVersion
    \/ GetUnreleasedChanges
    \/ RenderVersion

SpecLog == InitLog /\ [][NextLog]_vars

----------------------------------------------------------------------------
(* models/config.py: validation.  A field of type Literal[...] and its      *)
(* validator accept the same values; a value that is refused makes the      *)
(* construction or the assignment raise pydantic's ValidationError.         *)

\* AutoScribeConfig.validate_ai_model
validate_ai_model(v) ==
    IF v \notin VALID_AI_MODELS THEN Raise("ValueError") ELSE Return(v)

\* validate_categories that looks at the first category only
validate_categories_first(v) ==
    IF v # <<>> /\ v[1] \notin VALID_CATEGORIES
    THEN Raise("ValueError")
    ELSE Return(v)

\* AutoScribeConfig.validate_categories
validate_categories(v) ==
    IF \E i \in DOMAIN v : v[i] \notin VALID_CATEGORIES
    THEN Raise("ValueError")
    ELSE Return(v)

\* the validation of one field
validate_field(name, value) ==
    CASE name = "categories" -> validate_categories(value)
      [] name = "ai_model" -> validate_ai_model(value)
      [] OTHER -> Return(value)

\* AutoScribeConfig(**data): a field that is not declared is forbidden,
\* every field given is validated, the others take their defaults
AutoScribeConfig(data) ==
    IF ~(DOMAIN data \subseteq DOMAIN DefaultConfig)
    THEN Raise("ValidationError")
    ELSE IF \E f \in DOMAIN data : validate_field(f, data[f]).kind = "raise"
    THEN Raise("ValidationError")
    ELSE Return([f \in DOMAIN DefaultConfig |->
                    IF f \in DOMAIN data THEN data[f] ELSE DefaultConfig[f]])

\* obj.name = value under validate_assignment=True: the value is validated
\* first and the field is set only when it is accepted
validate_assignment(obj, name, value) ==
    IF validate_field(name, value).kind = "raise"
    THEN Raise("ValidationError")
    ELSE Return([obj EXCEPT ![name] = value])

\* values given for categories: valid lists, a list with one name twice, a
\* list with a name outside the set, after a valid one and alone
CategoryValues ==
    Normal(
    { << "Added", "Changed" >>,
      << "Added", "Changed", "Removed" >>,
      << "Fixed", "Fixed" >>,
      << "Added", "Invalid" >>,
      << "Invalid" >> })

\* values given for ai_model
AiModelValues == { "gpt-4", "gpt-3.5-turbo", "invalid-model" }

\* the keyword arguments of a construction
ConfigDatas ==
    Normal(
    { [categories |-> c] : c \in CategoryValues } \cup
    { [ai_model |-> m] : m \in AiModelValues } \cup
    { [categories |-> c, ai_model |-> m, ai_enabled |-> FALSE] :
          c \in CategoryValues, m \in AiModelValues } \cup
    { [github_release |-> FALSE], [extra_field |-> "value"] })

\* the fields that are assigned
AssignedFields == { "categories", "ai_model", "ai_enabled" }

\* the values that are assigned to a field
AssignedValues(name) ==
    CASE name = "categories" -> CategoryValues
      [] name = "ai_model" -> AiModelValues
      [] OTHER -> BOOLEAN

----------------------------------------------------------------------------
(* The configuration as a state machine: a configuration is constructed     *)
(* or a field of the configuration at hand is assigned.                     *)

InitConfig ==
    /\ categories = DefaultCategories
    /\ ai_service = "None"
    /\ call = [op |-> "init"]
    /\ ret = Pending
    /\ changelog = Changelog
    /\ output_file = None
    /\ added = <<>>
    /\ NoCommand

\* config = AutoScribeConfig(**data); config keeps its value when that raises
Construct ==
    /\ pc = "none"
    /\ \E data \in ConfigDatas :
          \E r \in { AutoScribeConfig(data) } :
              /\ call' = [op |-> "__init__", data |-> data, before |-> config]
              /\ IF r.kind = "raise"
                 THEN ret' = r /\ config' = config
                 ELSE ret' = Return(None) /\ config' = r.value
    /\ UNCHANGED <<categories, ai_service, options, pc, locals, releases, exit_code>>
    /\ UNCHANGED logvars

\* config.name = value
SetAttr ==
    /\ pc = "none"
    /\ \E name \in AssignedFields :
        \E value \in AssignedValues(name) :
          \E r \in { validate_assignment(config, name, value) } :
              /\ call' = [op |-> "__setattr__", name |-> name,
                          value |-> value, before |-> config]
              /\ IF r.kind = "raise"
                 THEN ret' = r /\ config' = config
                 ELSE ret' = Return(None) /\ config' = r.value
    /\ UNCHANGED <<categories, ai_service, options, pc, locals, releases, exit_code>>
    /\ UNCHANGED logvars

NextConfig ==
    \/ Construct
    \/ SetAttr

SpecConfig == InitConfig /\ [][NextConfig]_vars

----------------------------------------------------------------------------
(* cli/main.py and services/github.py: the generate command.  The           *)
(* configuration file, the git processes, the file system and GitHub are    *)
(* inputs: each step draws what the outside does when the step asks it.     *)

\* the version numbers that have a text
NumberNames ==
    { "", "0.9.0", "1.0.0", "1.1.0", "2.0.0", "1.9.0", "1.10.0", "1.10", "01.10.0" }

\* the version number with the given characters
Name(text) == CHOOSE n \in NumberNames : Chars(n) = text

RECURSIVE lstrip(_, _)
\* str.lstrip(c) for a character c
lstrip(s, c) ==
    IF s # <<>> /\ s[1] = c THEN lstrip(Tail(s), c) ELSE s

\* what a configuration file can be: missing; not TOML; TOML without a
\* [tool.autoscribe] table; a table with a token and releases; a table that
\* turns releases off; a table with a category outside the set; a table
\* with a key that is no field
ConfigFiles ==
    << [kind |-> "missing"],
       [kind |-> "malformed"],
       [kind |-> "no_table"],
       [kind |-> "table", data |-> [github_token |-> Some("token"), ai_enabled |-> FALSE]],
       [kind |-> "table", data |-> [github_token |-> Some("token"), github_release |-> FALSE]],
       [kind |-> "table", data |-> [categories |-> << "Added", "Invalid" >>]],
       [kind |-> "table", data |-> [invalid |-> TRUE]] >>

\* load_config that falls back to the defaults
load_config_or_default(config_path, file) ==
    IF file.kind = "table" /\ AutoScribeConfig(file.data).kind = "return"
    THEN AutoScribeConfig(file.data)
    ELSE Return(DefaultConfig)

\* load_config(config_path): file is the file at config_path when a path
\* is given, else the file at .autoscribe.toml; every exception becomes a
\* ClickException
load_config(config_path, file) ==
    IF file.kind = "malformed" THEN Raise("ClickException")
    ELSE IF file.kind = "missing" THEN Return(DefaultConfig)
    ELSE IF file.kind = "no_table"
    THEN IF config_path # None THEN Raise("ClickException") ELSE Return(DefaultConfig)
    ELSE IF AutoScribeConfig(file.data).kind = "raise" THEN Raise("ClickException")
    ELSE AutoScribeConfig(file.data)

\* what a request for the authenticated user comes to
GitHubProbes == { "login", "GithubException", "ConnectionError" }

\* GitHubService.__init__: the client exists when a token is configured and
\* the first request for the user succeeded
GitHubService(cfg, probe) ==
    IF cfg.github_token # None /\ probe = "login" THEN "client" ELSE "no_client"

\* is_available that does not look at the configuration
is_available_without_config(cfg, github, probe) ==
    IF probe = "ConnectionError" THEN Raise("ConnectionError")
    ELSE Return(probe = "login")

\* GitHubService.is_available: only a GithubException is caught
is_available(cfg, github, probe) ==
    IF ~cfg.github_release \/ cfg.github_token = None THEN Return(FALSE)
    ELSE IF github # "client" THEN Return(FALSE)
    ELSE IF probe = "login" THEN Return(TRUE)
    ELSE IF probe = "GithubException" THEN Return(FALSE)
    ELSE Raise("ConnectionError")

HTTPS_PREFIX ==
    <<"h", "t", "t", "p", "s", ":", "/", "/", "g", "i", "t", "h", "u", "b", ".", "c", "o", "m", "/">>

SSH_PREFIX ==
    <<"g", "i", "t", "@", "g", "i", "t", "h", "u", "b", ".", "c", "o", "m", ":">>

\* re.match(prefix ([^/]+)/([^/.]+)(?:\.git)?, url): the owner ends at the
\* first slash, the repository at the next slash or dot
match_repo(url, prefix) ==
    IF ~OccursAt(url, prefix, 1) THEN None
    ELSE LET rest == SubSeq(url, Len(prefix) + 1, Len(url))
             slashes == { i \in DOMAIN rest : rest[i] = "/" }
         IN  IF slashes = {} \/ Min(slashes) = 1 THEN None
             ELSE LET after == SubSeq(rest, Min(slashes) + 1, Len(rest))
                      stops == { i \in DOMAIN after : after[i] \in { "/", "." } }
                      repo == IF stops = {} THEN after
                              ELSE SubSeq(after, 1, Min(stops) - 1)
                  IN  IF repo = <<>> THEN None
                      ELSE Some(<<SubSeq(rest, 1, Min(slashes) - 1), repo>>)

\* GitService.extract_repo_info; url is what get_remote_url returned
extract_repo_info(url) ==
    IF url = None \/ url[1] = <<>> THEN <<None, None>>
    ELSE IF match_repo(url[1], HTTPS_PREFIX) # None
    THEN <<Some(match_repo(url[1], HTTPS_PREFIX)[1][1]),
           Some(match_repo(url[1], HTTPS_PREFIX)[1][2])>>
    ELSE IF match_repo(url[1], SSH_PREFIX) # None
    THEN <<Some(match_repo(url[1], SSH_PREFIX)[1][1]),
           Some(match_repo(url[1], SSH_PREFIX)[1][2])>>
    ELSE <<None, None>>

\* what `git remote get-url origin` gives: no remote, GitHub over HTTPS and
\* over SSH, another host, a URL without a repository
RemoteUrls ==
    Normal(
    { None,
      Some(<<"h", "t", "t", "p", "s", ":", "/", "/", "g", "i", "t", "h", "u", "b", ".", "c", "o", "m", "/", "o", "/", "r", ".", "g", "i", "t">>),
      Some(<<"g", "i", "t", "@", "g", "i", "t", "h", "u", "b", ".", "c", "o", "m", ":", "o", "/", "r">>),
      Some(<<"h", "t", "t", "p", "s", ":", "/", "/", "g", "i", "t", "l", "a", "b", ".", "c", "o", "m", "/", "o", "/", "r", ".", "g", "i", "t">>),
      Some(<<"h", "t", "t", "p", "s", ":", "/", "/", "g", "i", "t", "h", "u", "b", ".", "c", "o", "m", "/", "o", "/">>) })

\* generate: the version number, given or taken from the latest tag
resolve_version(version, latest_tag) ==
    IF version # None /\ Chars(version[1]) # <<>> THEN Return(version[1])
    ELSE IF latest_tag = None THEN Raise("ClickException")
    ELSE Return(Name(lstrip(latest_tag[1], "v")))

\* what `git tag -l 'v*'` does in the repository of the command: it fails,
\* or it lists some of two releases and a pre-release, in any order
RepositoryTagResults ==
    { r \in TagResults :
          r.kind = "completed" =>
              \A i \in DOMAIN Split(r.stdout, "\n") :
                  Split(r.stdout, "\n")[i] \in { <<>>, TagV1_9_0, TagV1_10_0, TagBeta } }

\* the options of a generate command
Options ==
    Normal(
    [version : { None, Some(""), Some("2.0.0") },
     ai : { None, Some(FALSE) },
     github_release : { None, Some(TRUE), Some(FALSE) },
     draft : BOOLEAN,
     config : { None, Some("custom.toml") }])

InitCli ==
    /\ categories = DefaultCategories
    /\ ai_service = "None"
    /\ call = [op |-> "generate"]
    /\ ret = Pending
    /\ changelog = Changelog
    /\ output_file \in { None, Some(ExistingFile) }
    /\ added = <<>>
    /\ config = DefaultConfig
    /\ options \in Options
    /\ pc = "load_config"
    /\ locals = [config_file |-> None, github_service |-> "None",
                 tags |-> None, latest_tag |-> None, version |-> None, new_version |-> None,
                 available |-> None, repo_info |-> None, failed |-> "nothing"]
    /\ releases = <<>>
    /\ exit_code = None

\* the except clause of generate and the exit of the process with code 1
Failed ==
    /\ pc' = "exit"
    /\ exit_code' = Some(1)
    /\ ret' = Raise("ClickException")

\* the end of generate and the exit of the process with code 0
Succeeded ==
    /\ pc' = "exit"
    /\ exit_code' = Some(0)
    /\ ret' = Return(None)

\* generate, lines 189-195: the configuration is loaded and the options
\* --ai and --github-release are assigned to it
CliLoadConfig ==
    /\ pc = "load_config"
    /\ \E i \in DOMAIN ConfigFiles :
          \E file \in { ConfigFiles[i] } :
          \E r \in { load_config(options.config, file) } :
              /\ options.config # None => file.kind # "missing"
              /\ IF r.kind = "raise"
                 THEN /\ Failed
                      /\ locals' = [locals EXCEPT !.config_file = Some(i),
                                                  !.failed = "load_config"]
                      /\ config' = config
                 ELSE /\ config' =
                            [r.value EXCEPT
                               !.ai_enabled =
                                   IF options.ai # None THEN options.ai[1] ELSE @,
                               !.github_release =
                                   IF options.github_release # None
                                   THEN options.github_release[1] ELSE @]
                      /\ locals' = [locals EXCEPT !.config_file = Some(i)]
                      /\ pc' = "initialize_services"
                      /\ UNCHANGED <<ret, exit_code>>
    /\ UNCHANGED <<categories, ai_service, call, options, releases>>
    /\ UNCHANGED logvars

\* generate, lines 198-201: initialize_services and ChangelogService(...).
\* GitService() raises outside a repository; the AIService of a
\* configuration without a key has no client; the GitHubService asks for
\* the user when it is made and when it is asked whether it is available
CliInitializeServices ==
    /\ pc = "initialize_services"
    /\ \E repository \in BOOLEAN, made \in GitHubProbes, asked \in GitHubProbes :
          \E github \in { IF config.github_release
                          THEN GitHubService(config, made) ELSE "None" } :
              IF \/ ~repository
                 \/ /\ github # "None"
                    /\ is_available(config, github, asked).kind = "raise"
              THEN /\ Failed
                   /\ locals' = [locals EXCEPT !.failed = "initialize_services"]
                   /\ UNCHANGED <<categories, ai_service, changelog, added>>
              ELSE /\ locals' = [locals EXCEPT !.github_service = github]
                   /\ ai_service' = IF config.ai_enabled THEN "AIService" ELSE "None"
                   /\ categories' = config.categories
                   /\ changelog' = load_or_create_changelog(output_file)
                   /\ added' = <<>>
                   /\ pc' = "resolve_version"
                   /\ UNCHANGED <<ret, exit_code>>
    /\ UNCHANGED <<call, output_file, config, options, releases>>

\* generate, lines 204-209: without a version the latest tag is asked for
CliResolveVersion ==
    /\ pc = "resolve_version"
    /\ \E result \in RepositoryTagResults :
          \E asked \in { options.version = None \/ Chars(options.version[1]) = <<>> } :
          \E latest_tag \in { IF asked THEN get_latest_tag(result).value ELSE None } :
          \E r \in { resolve_version(options.version, latest_tag) } :
              IF r.kind = "raise"
              THEN /\ Failed
                   /\ locals' = [locals EXCEPT !.tags = Some(result),
                                               !.latest_tag = latest_tag,
                                               !.failed = "resolve_version"]
              ELSE /\ locals' = [locals EXCEPT
                                    !.tags = IF asked THEN Some(result) ELSE None,
                                    !.latest_tag = latest_tag,
                                    !.version = Some(r.value)]
                   /\ pc' = "generate_version"
                   /\ UNCHANGED <<ret, exit_code>>
    /\ UNCHANGED <<categories, ai_service, call, config, options, releases>>
    /\ UNCHANGED logvars

\* generate, line 212: changelog_service.generate_version(version); the
\* git log is what the git service reads, and the provider of an AIService
\* without a client is never asked
CliGenerateVersion ==
    /\ pc = "generate_version"
    /\ \E result \in GitResults :
          \E commits \in { get_commits_since_tag(locals.latest_tag, result) } :
          \E r \in { IF commits.kind = "raise" THEN commits
                     ELSE generate_version(categories, ai_service, locals.version[1],
                                           commits.value,
                                           NoProvider(Len(commits.value))) } :
              IF r.kind = "raise"
              THEN /\ Failed
                   /\ locals' = [locals EXCEPT !.failed = "generate_version"]
              ELSE /\ locals' = [locals EXCEPT !.new_version = Some(r.value)]
                   /\ pc' = "add_version"
                   /\ UNCHANGED <<ret, exit_code>>
    /\ UNCHANGED <<categories, ai_service, call, config, options, releases>>
    /\ UNCHANGED logvars

\* generate, line 213: changelog_service.add_version(new_version); the
\* document is updated, then open() succeeds or raises
CliAddVersion ==
    /\ pc = "add_version"
    /\ \E io \in { "ok", "OSError" } :
          /\ changelog' = add_version(changelog, locals.new_version[1])
          /\ added' = Append(added, locals.new_version[1])
          /\ IF io = "ok"
             THEN /\ output_file' = Some(save_changelog(changelog'))
                  /\ pc' = "create_release"
                  /\ UNCHANGED <<ret, exit_code, locals>>
             ELSE /\ output_file' = output_file
                  /\ Failed
                  /\ locals' = [locals EXCEPT !.failed = "add_version"]
    /\ UNCHANGED <<categories, ai_service, call, config, options, releases>>

\* generate, lines 216-234: the release.  create_release asks again
\* whether the service is available, and reports a failure of the request
\* to GitHub as (False, message)
CliCreateRelease ==
    /\ pc = "create_release"
    /\ \E asked \in GitHubProbes, url \in RemoteUrls,
          asked_again \in GitHubProbes, created \in BOOLEAN :
          \E available \in { IF config.github_release /\ locals.github_service # "None"
                             THEN is_available(config, locals.github_service, asked)
                             ELSE Return(FALSE) } :
          \E info \in { extract_repo_info(url) } :
          \E again \in { is_available(config, locals.github_service, asked_again) } :
              IF available.kind = "raise"
              THEN /\ Failed
                   /\ locals' = [locals EXCEPT !.failed = "create_release"]
                   /\ UNCHANGED releases
              ELSE IF ~available.value
              THEN /\ Succeeded
                   /\ locals' = [locals EXCEPT !.available = Some(FALSE)]
                   /\ UNCHANGED releases
              ELSE IF info[1] = None \/ info[2] = None
              THEN /\ Succeeded
                   /\ locals' = [locals EXCEPT !.available = Some(TRUE),
                                               !.repo_info = Some(info)]
                   /\ UNCHANGED releases
              ELSE /\ releases' = Append(releases,
                         [owner |-> info[1][1], repo |-> info[2][1],
                          tag_name |-> <<"v">> \o Chars(locals.new_version[1].number),
                          name |-> <<"v">> \o Chars(locals.new_version[1].number),
                          body |-> render_version(locals.new_version[1]),
                          draft |-> options.draft,
                          success |-> again.kind = "return" /\ again.value /\ created])
                   /\ locals' = [locals EXCEPT
                                    !.available = Some(TRUE),
                                    !.repo_info = Some(info),
                                    !.failed = IF again.kind = "raise"
                                               THEN "create_release" ELSE @]
                   /\ IF again.kind = "raise"
                      THEN Failed
                      ELSE Succeeded
    /\ UNCHANGED <<categories, ai_service, call, config, options>>
    /\ UNCHANGED logvars

NextCli ==
    \/ CliLoadConfig
    \/ CliInitializeServices
    \/ CliResolveVersion
    \/ CliGenerateVersion
    \/ CliAddVersion
    \/ CliCreateRelease

SpecCli == InitCli /\ [][NextCli]_vars

----------------------------------------------------------------------------
(* The header grammar `<type>[(<scope>)][!]: <description>`, stated on its   *)
(* own: a header prefix of m is a choice of type, scope length and breaking  *)
(* marker whose concatenation, followed by ": ", m starts with.              *)

Range(f) == {f[i] : i \in DOMAIN f}

HeaderPrefixText(m, h) ==
    h.type
      \o (IF h.scopeLen = 0 THEN <<>>
          ELSE <<"(">> \o SubSeq(m, Len(h.type) + 2, Len(h.type) + 1 + h.scopeLen)
                 \o <<")">>)
      \o (IF h.bang THEN <<"!">> ELSE <<>>)
      \o <<":", " ">>

HeaderPrefixes(m) ==
    { h \in [type : Range(CONVENTIONAL_TYPES), scopeLen : 0..Len(m), bang : BOOLEAN] :
        /\ Len(h.type) + 1 + h.scopeLen <= Len(m)
        /\ \A k \in (Len(h.type) + 2)..(Len(h.type) + 1 + h.scopeLen) : m[k] # ")"
        /\ OccursAt(m, HeaderPrefixText(m, h), 1) }

FirstLine(m) == SubSeq(m, 1, FirstAt(m, "\n", 1) - 1)

\* what follows the first line, its newline included
AfterFirstLine(m) == SubSeq(m, FirstAt(m, "\n", 1), Len(m))

\* m begins with a header prefix and at least one character of description
StartsWithHeader(m) ==
    \E h \in HeaderPrefixes(m) :
        LET n == Len(HeaderPrefixText(m, h))
        IN  n < Len(m) /\ m[n + 1] # "\n"

\* the first line of m is a well-formed header
FirstLineHeaders(m) ==
    { h \in HeaderPrefixes(FirstLine(m)) :
        Len(HeaderPrefixText(m, h)) < Len(FirstLine(m)) }

HeaderDescription(m, h) ==
    SubSeq(FirstLine(m), Len(HeaderPrefixText(m, h)) + 1, Len(FirstLine(m)))

\* the first line is followed by a blank line and a non-empty body
HasBody(m) ==
    LET rest == AfterFirstLine(m)
    IN  Len(rest) >= 3 /\ rest[1] = "\n" /\ rest[2] = "\n"

BodyOf(m) == SubSeq(AfterFirstLine(m), 3, Len(AfterFirstLine(m)))

\* the whole message is a header alone, a header and a final newline, or a
\* header, a blank line and a body
MatchesGrammar(m) ==
    /\ FirstLineHeaders(m) # {}
    /\ \/ AfterFirstLine(m) = <<>>
       \/ AfterFirstLine(m) = <<"\n">>
       \/ HasBody(m)

Fallback(m) ==
    [type |-> t_other, scope |-> None, description |-> m, breaking |-> FALSE]

Parsed == call.op = "parse_conventional_commit" /\ ret.kind = "return"

IsText(s) == DOMAIN s = 1..Len(s)

\* C4: parse_conventional_commit returns a well-formed (type, scope,
\* description, breaking) tuple for every message, and for a message that does
\* not begin with a header of a recognized type it returns exactly
\* ("other", None, the entire message, False)
C4_ParserTotal ==
    Parsed =>
        LET r == ret.value
            m == call.message
        IN  /\ DOMAIN r = {"type", "scope", "description", "breaking"}
            /\ r.type \in Range(CONVENTIONAL_TYPES) \cup {t_other}
            /\ r.breaking \in BOOLEAN
            /\ IsText(r.description)
            /\ r.scope = None \/ (Len(r.scope) = 1 /\ Len(r.scope[1]) > 0)
            /\ ~StartsWithHeader(m) => r = Fallback(m)
            /\ r.type = t_other => r = Fallback(m)

\* a message over two lines that begins with no header was parsed
C4_Witness ==
    /\ Parsed
    /\ ~StartsWithHeader(call.message)
    /\ Contains(call.message, <<"\n">>)
    /\ Contains(call.message, <<":">>)
    /\ ret.value = Fallback(call.message)

\* C5: for a message that matches the grammar, breaking is true exactly when
\* the header has "!" before the colon or the body holds "BREAKING CHANGE:"
C5_BreakingIff ==
    (Parsed /\ MatchesGrammar(call.message)) =>
        \A h \in FirstLineHeaders(call.message) :
            ret.value.breaking =
                (h.bang \/ (HasBody(call.message)
                            /\ Contains(BodyOf(call.message), BREAKING_MARKER)))

\* a header without "!" whose body holds the marker was parsed as breaking
C5_Witness ==
    /\ Parsed
    /\ MatchesGrammar(call.message)
    /\ \A h \in FirstLineHeaders(call.message) : ~h.bang
    /\ HasBody(call.message)
    /\ Contains(BodyOf(call.message), BREAKING_MARKER)
    /\ ret.value.breaking

\* C6 as stated: whenever the first line is a well-formed header, the parser
\* returns its type and its description, whatever follows the first newline
C6_AnyTail ==
    Parsed =>
        \A h \in FirstLineHeaders(call.message) :
            /\ ret.value.type = h.type
            /\ ret.value.description = HeaderDescription(call.message, h)

\* C6 amended: the type and the description of the first line are returned
\* when the first line is followed by nothing, by one final newline or by a
\* blank line and a non-empty body; followed by anything else, the message is
\* returned whole by the fallback
C6_GrammarTail ==
    Parsed =>
        \A h \in FirstLineHeaders(call.message) :
            IF MatchesGrammar(call.message)
            THEN /\ ret.value.type = h.type
                 /\ ret.value.description = HeaderDescription(call.message, h)
                 /\ ~Contains(ret.value.description, <<"\n">>)
            ELSE ret.value = Fallback(call.message)

\* a header followed by a blank line and a body was parsed: the body is no
\* part of the description
C6_Witness ==
    /\ Parsed
    /\ HasBody(call.message)
    /\ \E h \in FirstLineHeaders(call.message) :
          ret.value.description = HeaderDescription(call.message, h)
    /\ Len(ret.value.description) < Len(call.message)

----------------------------------------------------------------------------
(* Claims about the grouping, the enhancement and the assembler *)

Grouped == call.op = "_categorize_changes"

Enhanced == call.op = "enhance_changes"

Generated == call.op = "generate_version"

\* the changes of entry k of a grouping, as a set
ChangesOf(dict, k) == Range(dict[k].changes)

\* the category a change resolves to: "Changed" when it is breaking, else
\* the category of its type
Resolved(change) ==
    IF change.breaking THEN "Changed"
    ELSE TYPE_TO_CATEGORY_get(change.type, "Changed")

\* C1 as stated: for every category list and every list of changes the
\* grouping returns, and a change whose resolved category is not enabled,
\* breaking ones included, is in no category of the result
C1_GroupingNeverFails ==
    Grouped =>
        /\ ret.kind = "return"
        /\ \A i \in DOMAIN call.changes :
              Resolved(call.changes[i]) \notin Range(categories) =>
                  \A k \in DOMAIN ret.value :
                      call.changes[i] \notin ChangesOf(ret.value, k)

\* the changes generate_version creates from the commits, before enhancement
Created == [i \in DOMAIN call.commits |-> create_change_from_commit(call.commits[i])]

\* C2: every Version generate_version returns has only categories whose
\* name is configured, and none of them is empty
C2_OnlyConfiguredNonEmpty ==
    (Generated /\ ret.kind = "return") =>
        \A k \in DOMAIN ret.value.categories :
            /\ ret.value.categories[k].name \in Range(categories)
            /\ ret.value.categories[k].changes # <<>>

\* a Version was returned although a change resolved to a category that is
\* not configured and a configured category stayed empty
C2_Witness ==
    /\ Generated
    /\ ret.kind = "return"
    /\ ret.value.categories # <<>>
    /\ \E i \in DOMAIN Created : Resolved(Created[i]) \notin Range(categories)
    /\ \E c \in Range(categories) :
          \A k \in DOMAIN ret.value.categories : ret.value.categories[k].name # c

\* C3: a grouping with "Changed" configured is returned, and in every
\* grouping that is returned a breaking change is filed under "Changed" and
\* under no other category, whatever its type
C3_BreakingUnderChanged ==
    /\ (Grouped /\ "Changed" \in Range(categories)) => ret.kind = "return"
    /\ (Grouped /\ ret.kind = "return") =>
        \A i \in DOMAIN call.changes :
            call.changes[i].breaking =>
                /\ \E k \in DOMAIN ret.value :
                      /\ ret.value[k].name = "Changed"
                      /\ call.changes[i] \in ChangesOf(ret.value, k)
                /\ \A k \in DOMAIN ret.value :
                      call.changes[i] \in ChangesOf(ret.value, k)
                          => ret.value[k].name = "Changed"

\* a breaking change whose type maps to "Added" was grouped while both
\* "Added" and "Changed" were configured
C3_Witness ==
    /\ Grouped
    /\ ret.kind = "return"
    /\ {"Added", "Changed"} \subseteq Range(categories)
    /\ \E i \in DOMAIN call.changes :
          /\ call.changes[i].breaking
          /\ TYPE_TO_CATEGORY_get(call.changes[i].type, "Changed") = "Added"
          /\ \E k \in DOMAIN ret.value :
                /\ ret.value[k].name = "Changed"
                /\ call.changes[i] \in ChangesOf(ret.value, k)

\* the provider was asked to enhance item i and answered with content
ProviderEnhanced(i) ==
    /\ ai_service = "AIService"
    /\ call.provider.a93
    /\ call.provider.a168
    /\ call.provider.items[i].kind = "response"
    /\ call.provider.items[i].content # <<>>

\* C7: the breaking_changes of a returned Version is the disjunction of the
\* breaking flags of the changes created from the commits, whatever the
\* provider answered
C7_BreakingIsOrOfCreated ==
    (Generated /\ ret.kind = "return") =>
        ret.value.breaking_changes = (\E i \in DOMAIN Created : Created[i].breaking)

\* a Version with a breaking change was returned after the provider had
\* rewritten the description of that change
C7_Witness ==
    /\ Generated
    /\ ret.kind = "return"
    /\ ret.value.breaking_changes
    /\ \E i \in DOMAIN Created : Created[i].breaking /\ ProviderEnhanced(i)

\* generate_version fails in the grouping: a breaking change, and "Changed"
\* not configured
GroupingFails ==
    /\ "Changed" \notin Range(categories)
    /\ \E i \in DOMAIN Created : Created[i].breaking

\* the summary request raised: it is made once the grouping is done and
\* has kept a change
SummaryRaised ==
    /\ ~GroupingFails
    /\ \E i \in DOMAIN Created : Resolved(Created[i]) \in Range(categories)
    /\ call.provider.a111
    /\ call.provider.aS93
    /\ call.provider.summary = Raises

\* a request to the provider raised during generate_version: the request
\* of an item, or the summary request
ProviderRaised ==
    /\ Generated
    /\ ai_service = "AIService"
    /\ \/ /\ call.provider.a93
          /\ call.provider.a168
          /\ \E i \in DOMAIN call.provider.items : call.provider.items[i] = Raises
       \/ SummaryRaised

\* C8 as stated: whenever a request to the provider raised, generate_version
\* still returns a Version
C8_AlwaysReturnsVersion ==
    ProviderRaised => ret.kind = "return"

\* C8, the part that holds: no provider error leaves generate_version, it
\* returns a Version exactly when the grouping of the commits' changes does
\* not fail, and in that Version every change whose request raised is the
\* change created from its commit, and a summary request that raised
\* leaves the fallback summary
C8_ProviderErrorNeverStops ==
    ProviderRaised =>
        /\ ret.kind = "raise" => ret.error = "KeyError"
        /\ (ret.kind = "return") = ~GroupingFails
        /\ ret.kind = "return" =>
              /\ DOMAIN ret.value =
                    {"number", "date", "categories", "summary",
                     "breaking_changes", "yanked", "compare_url"}
              /\ SummaryRaised => ret.value.summary = Some(FallbackSummary)
              /\ \A i \in DOMAIN call.commits :
                    (call.provider.a93 /\ call.provider.a168
                        /\ call.provider.items[i] = Raises) =>
                    \A k \in DOMAIN ret.value.categories :
                        \A c \in ChangesOf(ret.value.categories, k) :
                            c.commit_hash = call.commits[i].hash => c = Created[i]

\* the request of one item and the summary request raised, and a Version
\* that holds the item was returned
C8_Witness ==
    /\ ProviderRaised
    /\ SummaryRaised
    /\ ret.kind = "return"
    /\ \E i \in DOMAIN call.commits :
          /\ call.provider.a93 /\ call.provider.a168
          /\ call.provider.items[i] = Raises
          /\ \E k \in DOMAIN ret.value.categories :
                Created[i] \in ChangesOf(ret.value.categories, k)

\* C9: enhance_changes returns as many changes as it was given, in the same
\* order; an item whose request raised or brought no content is returned
\* unchanged, and every item whose request brought content is enhanced
C9_EnhanceItemwise ==
    Enhanced =>
        /\ ret.kind = "return"
        /\ Len(ret.value) = Len(call.changes)
        /\ \A i \in DOMAIN call.changes :
              LET out == call.outcomes[i]
              IN  /\ ret.value[i].commit_hash = call.changes[i].commit_hash
                  /\ IF call.available /\ out.kind = "response" /\ out.content # <<>>
                     THEN ret.value[i] =
                             [call.changes[i] EXCEPT !.description = Strip(out.content),
                                                     !.ai_enhanced = TRUE]
                     ELSE /\ ret.value[i] = call.changes[i]
                          /\ ~ret.value[i].ai_enhanced

\* in a batch of two, the request of one item raised and the other item was
\* enhanced
C9_Witness ==
    /\ Enhanced
    /\ call.available
    /\ Len(call.changes) = 2
    /\ call.outcomes[1] = Raises
    /\ call.outcomes[2].kind = "response"
    /\ ret.kind = "return"
    /\ ret.value[1] = call.changes[1]
    /\ ret.value[2].ai_enhanced
    /\ ret.value[2].description # call.changes[2].description

\* the commits "feat: add X", "fix: resolve Y", "feat!: remove Z", the
\* categories Added, Fixed and Changed, no enhancement service
Scenario ==
    /\ Generated
    /\ call.version_number = "1.0.0"
    /\ call.commits = SubSeq(History, 1, 3)
    /\ Range(categories) = {"Added", "Fixed", "Changed"}
    /\ Len(categories) = 3
    /\ ai_service = "None"

\* the changes of the category named name in a version
CategoryChanges(version, name) ==
    LET ks == {k \in DOMAIN version.categories : version.categories[k].name = name}
    IN  IF ks = {} THEN <<>> ELSE version.categories[Min(ks)].changes

\* C10: in the scenario generate_version returns a Version with exactly the
\* categories Added (one change, "add X"), Fixed (one change, "resolve Y")
\* and Changed (one change, "remove Z", breaking), and breaking_changes true
C10_EndToEnd ==
    Scenario =>
        /\ ret.kind = "return"
        /\ ret.value.number = "1.0.0"
        /\ Len(ret.value.categories) = 3
        /\ {ret.value.categories[k].name : k \in DOMAIN ret.value.categories}
              = {"Added", "Fixed", "Changed"}
        /\ Len(CategoryChanges(ret.value, "Added")) = 1
        /\ CategoryChanges(ret.value, "Added")[1].description = <<"a", "d", "d", " ", "X">>
        /\ ~CategoryChanges(ret.value, "Added")[1].breaking
        /\ Len(CategoryChanges(ret.value, "Fixed")) = 1
        /\ CategoryChanges(ret.value, "Fixed")[1].description = <<"r", "e", "s", "o", "l", "v", "e", " ", "Y">>
        /\ ~CategoryChanges(ret.value, "Fixed")[1].breaking
        /\ Len(CategoryChanges(ret.value, "Changed")) = 1
        /\ CategoryChanges(ret.value, "Changed")[1].description = <<"r", "e", "m", "o", "v", "e", " ", "Z">>
        /\ CategoryChanges(ret.value, "Changed")[1].breaking
        /\ ret.value.breaking_changes

\* the scenario was run and a Version came back
C10_Witness ==
    /\ Scenario
    /\ ret.kind = "return"
    /\ ret.value.summary = None

----------------------------------------------------------------------------
(* Claims about the changelog document, the renderer and the saved file *)

\* C11: after any sequence of add_version calls on a changelog that started
\* empty, versions is the sequence of the added versions in reverse order
\* of insertion: nothing is removed, reordered or deduplicated
C11_VersionsAreAddedReversed ==
    /\ changelog.versions = Reverse(added)
    /\ call.op = "add_version" =>
          /\ changelog.versions[1] = call.version
          /\ Len(changelog.versions) = Len(added)

\* a version was added twice, and a version with the number of an earlier
\* one was added
C11_Witness ==
    /\ call.op = "add_version"
    /\ Len(added) = 2
    /\ added[1].number = added[2].number
    /\ changelog.versions = <<added[2], added[1]>>

\* the first version of versions that satisfies Test, or None
FirstSuch(versions, Test(_)) ==
    LET ks == { i \in DOMAIN versions : Test(versions[i]) }
    IN  IF ks = {} THEN None ELSE Some(versions[Min(ks)])

Released(version) == version.number # "Unreleased"

\* C12: get_latest_version returns the first version in list order whose
\* number is not "Unreleased", and None when there is none; a step that
\* adds an "Unreleased" version leaves the result of get_latest_version as
\* it was
C12_LatestSkipsUnreleased ==
    /\ [](call.op = "get_latest_version" =>
            /\ ret = Return(FirstSuch(changelog.versions, Released))
            /\ (\A i \in DOMAIN changelog.versions :
                    changelog.versions[i].number = "Unreleased")
                  => ret = Return(None))
    /\ [][(call'.op = "add_version" /\ call'.version.number = "Unreleased")
            => get_latest_version(changelog') = get_latest_version(changelog)]_vars

\* the latest version was asked for after an "Unreleased" version had been
\* added on top of a released one, and the released one came back
C12_Witness ==
    /\ call.op = "get_latest_version"
    /\ Len(changelog.versions) = 2
    /\ changelog.versions[1].number = "Unreleased"
    /\ changelog.versions[2].number # "Unreleased"
    /\ ret = Return(Some(changelog.versions[2]))

Max(S) == CHOOSE x \in S : \A y \in S : y <= x

\* C13: get_version(n) returns the first version in list order whose
\* number is n, and None when there is none; of several added versions
\* with the number n it is the one added last.  get_unreleased_changes()
\* is get_version("Unreleased")
C13_GetVersionFirstMatch ==
    /\ call.op = "get_version" =>
          /\ ret = Return(FirstSuch(changelog.versions,
                                    LAMBDA v : v.number = call.version_number))
          /\ LET ks == { i \in DOMAIN added :
                           added[i].number = call.version_number }
             IN  IF ks = {} THEN ret = Return(None)
                 ELSE ret = Return(Some(added[Max(ks)]))
    /\ call.op = "get_unreleased_changes" =>
          ret = Return(FirstSuch(changelog.versions,
                                 LAMBDA v : v.number = "Unreleased"))
    /\ get_unreleased_changes(changelog) = get_version(changelog, "Unreleased")

\* two different versions with one number were added, that number was
\* looked up and the second one came back
C13_Witness ==
    /\ call.op = "get_version"
    /\ Len(added) = 2
    /\ added[1].number = call.version_number
    /\ added[2].number = call.version_number
    /\ added[1] # added[2]
    /\ ret = Return(Some(added[2]))

\* s begins with p
StartsWith(s, p) == OccursAt(s, p, 1)

\* s ends with p
EndsWith(s, p) == OccursAt(s, p, Len(s) - Len(p) + 1)

RECURSIVE Lines(_)
\* the lines of a text: the pieces between its newlines
Lines(text) ==
    LET ks == { i \in DOMAIN text : text[i] = "\n" }
    IN  IF ks = {} THEN <<text>>
        ELSE <<SubSeq(text, 1, Min(ks) - 1)>>
                 \o Lines(SubSeq(text, Min(ks) + 1, Len(text)))

\* the number of elements of s that satisfy Test
Count(s, Test(_)) == Cardinality({ i \in DOMAIN s : Test(s[i]) })

\* a date as YYYY-MM-DD, written out for the dates of the versions
DateText(date) ==
    CASE date = [year |-> 2024, month |-> 1, day |-> 1] -> <<"2", "0", "2", "4", "-", "0", "1", "-", "0", "1">>
      [] date = [year |-> 2024, month |-> 1, day |-> 5] -> <<"2", "0", "2", "4", "-", "0", "1", "-", "0", "5">>
      [] date = [year |-> 2024, month |-> 3, day |-> 15] -> <<"2", "0", "2", "4", "-", "0", "3", "-", "1", "5">>
      [] date = [year |-> 2024, month |-> 11, day |-> 30] -> <<"2", "0", "2", "4", "-", "1", "1", "-", "3", "0">>
      [] date = [year |-> 2025, month |-> 10, day |-> 9] -> <<"2", "0", "2", "5", "-", "1", "0", "-", "0", "9">>
      [] date = [year |-> 2025, month |-> 2, day |-> 28] -> <<"2", "0", "2", "5", "-", "0", "2", "-", "2", "8">>
      [] date = [year |-> 2025, month |-> 12, day |-> 31] -> <<"2", "0", "2", "5", "-", "1", "2", "-", "3", "1">>

\* the heading line of a version
VersionHeading(version) ==
    <<"#", "#", " ", "[">> \o Chars(version.number) \o <<"]", " ", "-", " ">>
        \o DateText(version.date)

IsChangeLine(line) == StartsWith(line, <<"-", " ">>)

BreakingHeadingLine ==
    <<"#", "#", "#", " ">> \o <<"U+26A0", "U+FE0F">> \o <<" ", "B", "R", "E", "A", "K", "I", "N", "G", " ", "C", "H", "A", "N", "G", "E", "S">>

IsCategoryHeading(line) ==
    StartsWith(line, <<"#", "#", "#", " ">>) /\ line # BreakingHeadingLine

\* the changes of all categories of a version, in order
RECURSIVE AllChanges(_, _)
AllChanges(cats, i) ==
    IF i > Len(cats) THEN <<>>
    ELSE cats[i].changes \o AllChanges(cats, i + 1)

\* C14: the text render_version returns begins with the heading line
\* "## [<number>] - <YYYY-MM-DD>"; every change of every non-empty category
\* has a line that holds its description; a category without changes has
\* no heading and no lines
C14_RenderHeadingAndChanges ==
    call.op = "render_version" =>
        LET v == call.version
            lines == Lines(ret.value)
            changes == AllChanges(v.categories, 1)
        IN  /\ ret.kind = "return"
            /\ lines[1] = VersionHeading(v)
            /\ \A i \in DOMAIN changes :
                  \E j \in DOMAIN lines :
                      IsChangeLine(lines[j]) /\ EndsWith(lines[j], changes[i].description)
            /\ Count(lines, IsChangeLine) = Len(changes)
            /\ \A k \in DOMAIN v.categories :
                  (\E j \in DOMAIN lines :
                      lines[j] = <<"#", "#", "#", " ">> \o Chars(v.categories[k].name))
                  <=> v.categories[k].changes # <<>>
            /\ Count(lines, IsCategoryHeading)
                  = Count(v.categories, LAMBDA c : c.changes # <<>>)

\* a version with a summary, a category without changes and a category
\* with a change was rendered
C14_Witness ==
    /\ call.op = "render_version"
    /\ call.version.summary # None
    /\ \E k \in DOMAIN call.version.categories :
          call.version.categories[k].changes = <<>>
    /\ \E k \in DOMAIN call.version.categories :
          /\ call.version.categories[k].changes # <<>>
          /\ Contains(ret.value, call.version.categories[k].changes[1].description)

\* the indices of the elements of s that satisfy Test, in order
Indices(s, Test(_)) ==
    SelectSeq([i \in 1..Len(s) |-> i], LAMBDA i : Test(s[i]))

RECURSIVE AllChangeCategories(_, _)
\* for each change of AllChanges, the name of its category
AllChangeCategories(cats, i) ==
    IF i > Len(cats) THEN <<>>
    ELSE [k \in DOMAIN cats[i].changes |-> cats[i].name]
             \o AllChangeCategories(cats, i + 1)

IsHeading(line) == StartsWith(line, <<"#", "#", "#", " ">>)

\* the line a change is to have: "- ", the prefix when it is breaking, the
\* scope in bold when it has one, the description
ExpectedChangeLine(change) ==
    <<"-", " ">>
        \o (IF change.breaking THEN <<"B", "R", "E", "A", "K", "I", "N", "G", " ", "C", "H", "A", "N", "G", "E", ":", " ">> ELSE <<>>)
        \o (IF change.scope = None THEN <<>>
            ELSE <<"*", "*">> \o change.scope[1] \o <<"*", "*", ":", " ">>)
        \o change.description

\* the text of the change itself begins like the prefix
BeginsLikePrefix(change) ==
    /\ change.scope = None
    /\ StartsWith(change.description, <<"B", "R", "E", "A", "K", "I", "N", "G", " ", "C", "H", "A", "N", "G", "E", ":", " ">>)

\* C15: the rendering has the breaking-changes heading once when
\* breaking_changes is true and not at all otherwise; the heading comes
\* before every category heading and every change line; the i-th change
\* line is the line of the i-th change, with the prefix "BREAKING CHANGE: "
\* exactly when the change is breaking, under the heading of the change's
\* own category
C15_BreakingHeadingAndPrefix ==
    call.op = "render_version" =>
        LET v == call.version
            lines == Lines(ret.value)
            changes == AllChanges(v.categories, 1)
            names == AllChangeCategories(v.categories, 1)
            at == Indices(lines, IsChangeLine)
            heads == Indices(lines, LAMBDA l : l = BreakingHeadingLine)
        IN  /\ Len(heads) = (IF v.breaking_changes THEN 1 ELSE 0)
            /\ \A h \in Range(heads) :
                  /\ lines[h + 1] = <<>>
                  /\ \A j \in DOMAIN lines :
                        (IsCategoryHeading(lines[j]) \/ IsChangeLine(lines[j])) => h < j
            /\ Len(at) = Len(changes)
            /\ \A i \in DOMAIN changes :
                  /\ lines[at[i]] = ExpectedChangeLine(changes[i])
                  /\ ~BeginsLikePrefix(changes[i]) =>
                        (StartsWith(lines[at[i]], <<"-", " ", "B", "R", "E", "A", "K", "I", "N", "G", " ", "C", "H", "A", "N", "G", "E", ":", " ">>)
                            <=> changes[i].breaking)
                  /\ LET above == { j \in 1..at[i] : IsHeading(lines[j]) }
                     IN  /\ above # {}
                         /\ lines[Max(above)]
                               = <<"#", "#", "#", " ">> \o Chars(names[i])

\* a version with breaking_changes true was rendered whose category
\* "Changed" holds a breaking change and a change that is not breaking
C15_Witness ==
    /\ call.op = "render_version"
    /\ call.version.breaking_changes
    /\ \E k \in DOMAIN call.version.categories :
          /\ call.version.categories[k].name = "Changed"
          /\ \E i, j \in DOMAIN call.version.categories[k].changes :
                /\ call.version.categories[k].changes[i].breaking
                /\ ~call.version.categories[k].changes[j].breaking
    /\ Contains(ret.value, BREAKING_HEADING)

IsVersionHeading(line) == StartsWith(line, <<"#", "#", " ", "[">>)

\* add_version has just written the file
Saved == call.op = "add_version" /\ ret.kind = "return"

\* the file begins with the header, and its version headings are those of
\* the versions of the model, in the order of the model
HeaderThenVersions ==
    LET lines == Lines(output_file[1])
        at == Indices(lines, IsVersionHeading)
    IN  /\ StartsWith(output_file[1], FILE_HEADER)
        /\ Len(at) = Len(changelog.versions)
        /\ \A i \in DOMAIN at : lines[at[i]] = VersionHeading(changelog.versions[i])
        /\ \A i \in DOMAIN at : at[i] > Len(Lines(FILE_HEADER)) - 1

\* the number of empty lines right above line j
RECURSIVE BlankLinesAbove(_, _)
BlankLinesAbove(lines, j) ==
    IF j > 1 /\ lines[j - 1] = <<>> THEN 1 + BlankLinesAbove(lines, j - 1) ELSE 0

\* C16 as stated: the written file is the header followed by the version
\* sections of the model, most recently added first, and one blank line
\* stands between a version section and the heading of the next
C16_SingleBlankLineBetweenSections ==
    Saved =>
        /\ HeaderThenVersions
        /\ LET lines == Lines(output_file[1])
               at == Indices(lines, IsVersionHeading)
           IN  \A i \in DOMAIN at : i > 1 => BlankLinesAbove(lines, at[i]) = 1

\* C16, what the file is: the header, then for each version of the model,
\* most recently added first, its rendering and one more newline; the
\* rendering ends with a blank line, so two blank lines stand above the
\* heading of every version but the first, and the file ends with two
C16_TwoBlankLinesBetweenSections ==
    Saved =>
        /\ HeaderThenVersions
        /\ changelog.versions = Reverse(added)
        /\ LET lines == Lines(output_file[1])
               at == Indices(lines, IsVersionHeading)
           IN  /\ \A i \in DOMAIN at :
                     BlankLinesAbove(lines, at[i]) = (IF i = 1 THEN 1 ELSE 2)
               /\ \A i \in DOMAIN at :
                     LET last == IF i < Len(at) THEN at[i + 1] - 1 ELSE Len(lines) - 1
                         section == [j \in 1..(last - at[i]) |-> lines[at[i] + j - 1]]
                     IN  section \o << <<>> >>
                            = Lines(render_version(changelog.versions[i]))

\* two versions were added and the file was written
C16_Witness ==
    /\ Saved
    /\ Len(changelog.versions) = 2
    /\ changelog.versions[1] # changelog.versions[2]
    /\ output_file # None

\* C17: a service that has just been constructed has an empty changelog,
\* with no versions and the default title, whether the output file is
\* missing or holds version sections
C17_ConstructedEmpty ==
    call.op = "__init__" =>
        /\ changelog.versions = <<>>
        /\ changelog.title = "Changelog"
        /\ added = <<>>

\* a service was constructed over a file that an earlier run had written
\* two version sections to
C17_Witness ==
    /\ call.op = "__init__"
    /\ call.output_exists
    /\ output_file # None
    /\ StartsWith(output_file[1], FILE_HEADER)
    /\ Len(Indices(Lines(output_file[1]), IsVersionHeading)) = 2
    /\ changelog.versions = <<>>

----------------------------------------------------------------------------
(* Claims about the summary and the git log *)

\* every is_available() check that generate_version made was answered no
ReportsUnavailable ==
    /\ ai_service = "AIService"
    /\ ~call.provider.a93
    /\ ~call.provider.a111

\* generate_version_summary was entered and found the service available
SummaryMade ==
    /\ ai_service = "AIService"
    /\ call.provider.a111
    /\ call.provider.aS93

\* the changes of a returned Version
VersionChanges == AllChanges(ret.value.categories, 1)

\* without a service, or with one that reports itself unavailable, the
\* Version has no summary and none of its changes is enhanced
NoServiceNoSummary ==
    (Generated /\ ret.kind = "return"
        /\ (ai_service = "None" \/ ReportsUnavailable)) =>
        /\ ret.value.summary = None
        /\ \A i \in DOMAIN VersionChanges : ~VersionChanges[i].ai_enhanced

\* C18 as stated: without a service or with an unavailable one there is no
\* summary and no enhanced change, and a summary that is present is the
\* text the provider returned
C18_SummaryIsProviderText ==
    /\ NoServiceNoSummary
    /\ (Generated /\ ret.kind = "return" /\ ret.value.summary # None) =>
          /\ call.provider.summary.kind = "response"
          /\ ret.value.summary = Some(Strip(call.provider.summary.content))

\* C18, amended: without a service or with an unavailable one there is no
\* summary and no enhanced change; a summary is present exactly when
\* generate_version_summary found the service available, and it is then
\* the provider's text, stripped, or "No changes in this version." when
\* the Version has no changes, or "No significant changes in this version."
\* when the request raised or brought no content
C18_SummaryFromService ==
    /\ NoServiceNoSummary
    /\ (Generated /\ ret.kind = "return") =>
          /\ (ret.value.summary # None) = SummaryMade
          /\ SummaryMade =>
                ret.value.summary =
                    (IF VersionChanges = <<>> THEN Some(NoChangesSummary)
                     ELSE IF call.provider.summary.kind = "response"
                             /\ call.provider.summary.content # <<>>
                     THEN Some(Strip(call.provider.summary.content))
                     ELSE Some(FallbackSummary))

\* the summary request raised and the Version came back with the fallback
\* summary
C18_Witness ==
    /\ Generated
    /\ ret.kind = "return"
    /\ SummaryMade
    /\ call.provider.summary = Raises
    /\ VersionChanges # <<>>
    /\ ret.value.summary = Some(FallbackSummary)

Summarized == call.op = "generate_version_summary"

C19_SummaryFrame ==
    Summarized =>
        /\ ret.kind = "return"
        /\ \A f \in { "number", "date", "categories", "breaking_changes" } :
              ret.value[f] = call.version[f]
        /\ IF call.available /\ AllChanges(call.version.categories, 1) = <<>>
           THEN ret.value.yanked = FALSE /\ ret.value.compare_url = None
           ELSE /\ ret.value.yanked = call.version.yanked
                /\ ret.value.compare_url = call.version.compare_url
        /\ ~call.available => ret.value = call.version

\* the git log process failed: it did not run, it ended with an error
\* code, or it wrote to its errors and not to its output
GitFailed(result) ==
    \/ result.kind = "exception"
    \/ /\ result.kind = "completed"
       /\ \/ result.returncode # 0
          \/ result.stderr # <<>> /\ result.stdout = <<>>

\* C20: when the git log query fails, get_commits_since_tag returns the
\* empty list and raises nothing
C20_FailedQueryGivesEmptyList ==
    (call.op = "get_commits_since_tag" /\ GitFailed(call.result)) =>
        ret = Return(<<>>)

\* the commits since a tag that does not exist were asked for, git ended
\* with an error code, and the empty list came back
C20_Witness ==
    /\ call.op = "get_commits_since_tag"
    /\ call.tag = Some("non-existent-tag")
    /\ call.result.kind = "completed"
    /\ call.result.returncode # 0
    /\ ret = Return(<<>>)

----------------------------------------------------------------------------
(* Claims about the git log of a query that succeeded *)

\* the lines of what a git log that succeeded wrote, the empty ones left out
OutputLines(result) ==
    SelectSeq(Split(Strip(result.stdout), "\n"), LAMBDA line : line # <<>>)

Separators(line) == { i \in DOMAIN line : line[i] = "|" }

\* the commit of a line of the format %H|%s|%an|%aI: the hash ends at the
\* first separator, the date begins after the last one, the author is
\* between the last two, and the subject is what is left between
LineCommit(line) ==
    LET first == Min(Separators(line))
        last == Max(Separators(line))
        before == Max(Separators(line) \ { last })
    IN  [hash |-> SubSeq(line, 1, first - 1),
         message |-> SubSeq(line, first + 1, before - 1),
         author |-> SubSeq(line, before + 1, last - 1),
         date |-> SubSeq(line, last + 1, Len(line))]

LogSucceeded == call.op = "get_commits_since_tag" /\ ~GitFailed(call.result)

\* C30 as stated: when the git log query succeeds, get_commits_since_tag
\* raises nothing and returns one commit per non-empty line of the output,
\* in the order of the lines, with the fields of its line, also when the
\* subject of a commit holds the separator "|"
C30_OneCommitPerLine ==
    LogSucceeded =>
        /\ ret.kind = "return"
        /\ ret.value = [i \in 1..Len(OutputLines(call.result)) |->
                            LineCommit(OutputLines(call.result)[i])]

\* what holds of a query that succeeded: when every line has exactly three
\* separators the commits are those of the lines, in their order, and when
\* a line has another number of them the ValueError of the unpacking leaves
\* the call
C30_OneCommitPerFourFieldLine ==
    LogSucceeded =>
        IF \A i \in DOMAIN OutputLines(call.result) :
               Cardinality(Separators(OutputLines(call.result)[i])) = 3
        THEN ret = Return([i \in 1..Len(OutputLines(call.result)) |->
                               LineCommit(OutputLines(call.result)[i])])
        ELSE ret = Raise("ValueError")

----------------------------------------------------------------------------
(* Claims about the latest tag *)

TagQueried == call.op = "get_latest_tag"

\* the tags the git tag process listed, when it succeeded
ListedTags == Range(OutputLines(call.result))

\* the components of a tag after its "v", between the dots
Components(tag) == Split(SubSeq(tag, 2, Len(tag)), ".")

Numeric(tag) ==
    \A i \in DOMAIN Components(tag) :
        /\ Components(tag)[i] # <<>>
        /\ Range(Components(tag)[i]) \subseteq Range(DecimalDigits)

\* the version of tag a is later than that of tag b: at the first component
\* in which they differ a has the greater number, or b has no such component
Later(a, b) ==
    LET ca == Components(a)
        cb == Components(b)
        n == Min({Len(ca), Len(cb)})
        differ == { i \in 1..n : DecimalValue(ca[i]) # DecimalValue(cb[i]) }
    IN  IF differ = {} THEN Len(ca) > Len(cb)
        ELSE DecimalValue(ca[Min(differ)]) > DecimalValue(cb[Min(differ)])

\* C23 as stated: get_latest_tag returns None only when the repository has
\* no tag matching v*, and a tag it returns is one of the listed tags with
\* integer components that no such tag is later than
C23_GreatestTagOrNone ==
    (TagQueried /\ ~GitFailed(call.result)) =>
        /\ ret.kind = "return"
        /\ ret.value = None <=> ListedTags = {}
        /\ ret.value # None =>
              /\ ret.value[1] \in ListedTags
              /\ Numeric(ret.value[1])
              /\ \A t \in ListedTags : Numeric(t) => ~Later(t, ret.value[1])

\* what holds: when every listed tag has integer components the tag
\* returned is the first listed of those no tag is later than (v1.10.0 is
\* later than v1.9.0), and None is returned when nothing is listed, when a
\* listed tag has a component that is no integer, and when git fails
C23_GreatestWhenAllNumeric ==
    TagQueried =>
        /\ ret.kind = "return"
        /\ ret.value = None <=>
              \/ GitFailed(call.result)
              \/ ListedTags = {}
              \/ \E t \in ListedTags : ~Numeric(t)
        /\ ret.value # None =>
              /\ ret.value[1] \in ListedTags
              /\ \A t \in ListedTags : ~Later(t, ret.value[1])
              /\ \A i \in DOMAIN OutputLines(call.result) :
                    LET t == OutputLines(call.result)[i]
                    IN  (\A u \in ListedTags : ~Later(u, t)) =>
                            \E j \in 1..i : OutputLines(call.result)[j] = ret.value[1]
              /\ (TagV1_10_0 \in ListedTags) => ret.value[1] # TagV1_9_0

----------------------------------------------------------------------------
(* Claims about the order of semantic versions *)

Compared == call.op = "__lt__"

IsNumeric(identifier) ==
    identifier # <<>> /\ Range(identifier) \subseteq Range(DecimalDigits)

\* SemVer 2.0.0, item 11.4: identifier a has lower precedence than
\* identifier b: numeric ones by their numbers, a numeric one below one
\* that is not numeric, the others by the ASCII order of their characters
IdentifierBelow(a, b) ==
    IF IsNumeric(a) /\ IsNumeric(b) THEN DecimalValue(a) < DecimalValue(b)
    ELSE IF IsNumeric(a) THEN TRUE
    ELSE IF IsNumeric(b) THEN FALSE
    ELSE str_lt(a, b)

\* prerelease a has lower precedence than prerelease b: the first
\* identifier in which they differ decides, and when all of the shorter one
\* are equal the one with fewer identifiers is lower
PrereleaseBelow(a, b) ==
    LET fa == Split(a, ".")
        fb == Split(b, ".")
        differ == { i \in 1..Min({Len(fa), Len(fb)}) : fa[i] # fb[i] }
    IN  IF differ = {} THEN Len(fa) < Len(fb)
        ELSE IdentifierBelow(fa[Min(differ)], fb[Min(differ)])

\* SemVer 2.0.0, item 11: version a has lower precedence than version b
Precedes(a, b) ==
    IF a.major # b.major THEN a.major < b.major
    ELSE IF a.minor # b.minor THEN a.minor < b.minor
    ELSE IF a.patch # b.patch THEN a.patch < b.patch
    ELSE IF a.prerelease = None THEN FALSE
    ELSE IF b.prerelease = None THEN TRUE
    ELSE PrereleaseBelow(a.prerelease[1], b.prerelease[1])

\* C24 as stated: a < b is the precedence of SemVer 2.0.0: the core numbers
\* are compared as numbers, a version without prerelease is above the same
\* core with one, prerelease identifiers are compared field by field with
\* numeric ones as numbers, the build is ignored; and the relation is
\* irreflexive and asymmetric
C24_SemVerPrecedence ==
    Compared =>
        /\ ret.value = Precedes(call.self, call.other)
        /\ call.self = call.other => ~ret.value
        /\ ret.value => ~Version_lt(call.other, call.self)

\* what holds: the core numbers are compared as numbers, a version without
\* prerelease is above the same core with one, two prereleases are compared
\* as whole texts by code points, the build is ignored, and the relation is
\* irreflexive and asymmetric
C24_CoreThenTextOrder ==
    Compared =>
        LET a == call.self
            b == call.other
        IN  /\ <<a.major, a.minor, a.patch>> # <<b.major, b.minor, b.patch>>
                  => ret.value = Precedes(a, b)
            /\ (a.prerelease = None \/ b.prerelease = None)
                  => ret.value = Precedes(a, b)
            /\ (/\ <<a.major, a.minor, a.patch>> = <<b.major, b.minor, b.patch>>
                /\ a.prerelease # None /\ b.prerelease # None)
                  => ret.value = str_lt(a.prerelease[1], b.prerelease[1])
            /\ ret.value = Version_lt([a EXCEPT !.build = None],
                                      [b EXCEPT !.build = None])
            /\ a = b => ~ret.value
            /\ ret.value => ~Version_lt(b, a)

----------------------------------------------------------------------------
(* Claims about the grouping as a whole *)

\* the positions of a grouping at which a change is filed
FiledAt(grouping, change) ==
    UNION { { <<k, j>> : j \in { x \in DOMAIN grouping[k].changes :
                                     grouping[k].changes[x] = change } } :
            k \in DOMAIN grouping }

\* the first position of a name in the configured list
FirstConfigured(name) == Min({ i \in DOMAIN categories : categories[i] = name })

\* C25: the grouping that is returned is the reference grouping: a change
\* that is not breaking is filed under the category of its type in the
\* table ("Changed" for a type that is not in the table) when that category
\* is configured, and under no other category; no change is filed twice;
\* the changes of a category are in the order of the list that was grouped;
\* the categories are in the order of the configured list
C25_ReferenceGrouping ==
    (Grouped /\ ret.kind = "return") =>
        /\ \A i \in DOMAIN call.changes :
              LET change == call.changes[i]
                  category == TYPE_TO_CATEGORY_get(change.type, "Changed")
              IN  /\ Cardinality(FiledAt(ret.value, change)) <= 1
                  /\ ~change.breaking =>
                        /\ category \in Range(categories) =>
                              \E p \in FiledAt(ret.value, change) :
                                  ret.value[p[1]].name = category
                        /\ \A p \in FiledAt(ret.value, change) :
                              ret.value[p[1]].name = category
        /\ \A k \in DOMAIN ret.value :
              /\ \A j \in DOMAIN ret.value[k].changes :
                    ret.value[k].changes[j] \in Range(call.changes)
              /\ \A j1, j2 \in DOMAIN ret.value[k].changes :
                    j1 < j2 =>
                        \E i1, i2 \in DOMAIN call.changes :
                            /\ i1 < i2
                            /\ call.changes[i1] = ret.value[k].changes[j1]
                            /\ call.changes[i2] = ret.value[k].changes[j2]
        /\ \A k1, k2 \in DOMAIN ret.value :
              k1 < k2 =>
                  /\ ret.value[k1].name \in Range(categories)
                  /\ ret.value[k2].name \in Range(categories)
                  /\ FirstConfigured(ret.value[k1].name)
                         < FirstConfigured(ret.value[k2].name)

\* with "Changed" configured twice and after "Documentation", a change of
\* type "other" and a change of type feat that is not breaking were grouped:
\* "Changed" came before "Added", and a second grouping is not reached here
C25_Witness ==
    /\ Grouped
    /\ ret.kind = "return"
    /\ categories = << "Documentation", "Changed", "Added", "Changed" >>
    /\ Len(call.changes) = 2
    /\ call.changes[1].type = t_other /\ ~call.changes[1].breaking
    /\ call.changes[2].type = t_feat /\ ~call.changes[2].breaking
    /\ Len(ret.value) = 2
    /\ ret.value[1] = [name |-> "Changed", changes |-> <<call.changes[1]>>]
    /\ ret.value[2] = [name |-> "Added", changes |-> <<call.changes[2]>>]

\* two changes that are not breaking were filed under the same category,
\* in the order of the list
C25_SameCategoryWitness ==
    /\ Grouped
    /\ ret.kind = "return"
    /\ \E k \in DOMAIN ret.value :
          /\ Len(ret.value[k].changes) = 2
          /\ ret.value[k].changes = call.changes
          /\ ~call.changes[1].breaking /\ ~call.changes[2].breaking

\* C26: in every Version generate_version returns, breaking_changes is true
\* exactly when a change of one of its categories is breaking
C26_BreakingIffContained ==
    (Generated /\ ret.kind = "return") =>
        (ret.value.breaking_changes
            <=> \E change \in Range(AllChanges(ret.value.categories, 1)) :
                    change.breaking)

\* a Version with breaking_changes was returned whose breaking change has a
\* type of the category "Added", and it is in the category "Changed"
C26_Witness ==
    /\ Generated
    /\ ret.kind = "return"
    /\ ret.value.breaking_changes
    /\ \E k \in DOMAIN ret.value.categories :
          /\ ret.value.categories[k].name = "Changed"
          /\ \E change \in Range(ret.value.categories[k].changes) :
                /\ change.breaking
                /\ TYPE_TO_CATEGORY_get(change.type, "Changed") = "Added"

\* a Version without breaking_changes was returned that has changes
C26_NotBreakingWitness ==
    /\ Generated
    /\ ret.kind = "return"
    /\ ~ret.value.breaking_changes
    /\ ret.value.categories # <<>>

----------------------------------------------------------------------------
(* Claims about the file as a whole *)

RECURSIVE Renderings(_, _, _)
\* the renderings of the versions from index i on, one after the other,
\* each one followed by the text after
Renderings(versions, i, after) ==
    IF i > Len(versions) THEN <<>>
    ELSE render_version(versions[i]) \o after \o Renderings(versions, i + 1, after)

\* C27 as stated: after every add_version that succeeded the file is
\* exactly the header followed by the rendering of every version of the
\* model, in the order of the model, and the model holds the versions added
\* in this run only, so the sections an earlier run wrote are gone
C27_FileIsHeaderAndRenderings ==
    Saved =>
        /\ output_file = Some(FILE_HEADER \o Renderings(changelog.versions, 1, <<>>))
        /\ changelog.versions = Reverse(added)

\* what holds: the file is the header followed by, for every version of the
\* model in the order of the model, its rendering and one more line feed;
\* the model holds the versions added in this run only, so the file has as
\* many version headings as versions were added in this run
C27_FileIsHeaderAndSections ==
    Saved =>
        /\ output_file = Some(FILE_HEADER \o Renderings(changelog.versions, 1, <<"\n">>))
        /\ changelog.versions = Reverse(added)
        /\ Len(Indices(Lines(output_file[1]), IsVersionHeading)) = Len(added)

----------------------------------------------------------------------------
(* Claims about the validation of the configuration *)

\* the value is outside what the field accepts
Invalid(name, value) ==
    \/ name = "categories" /\ ~(Range(value) \subseteq VALID_CATEGORIES)
    \/ name = "ai_model" /\ value \notin VALID_AI_MODELS

\* C21: a construction with a category outside the closed set or with a
\* model outside the list raises a validation error, and so does the
\* assignment of such a value; after the rejected assignment the
\* configuration is what it was, so a configuration never holds such a value
C21_InvalidRejected ==
    /\ call.op = "__init__" =>
          ((\E f \in DOMAIN call.data : Invalid(f, call.data[f]))
              => ret = Raise("ValidationError") /\ config = call.before)
    /\ call.op = "__setattr__" =>
          IF Invalid(call.name, call.value)
          THEN ret = Raise("ValidationError") /\ config = call.before
          ELSE ret = Return(None) /\ config[call.name] = call.value
    /\ ~Invalid("categories", config.categories)
    /\ ~Invalid("ai_model", config.ai_model)

\* a list whose second category is outside the set was assigned to a
\* configuration whose categories had been assigned before: the assignment
\* raised and the categories are those assigned before
C21_Witness ==
    /\ call.op = "__setattr__"
    /\ call.name = "categories"
    /\ call.value = << "Added", "Invalid" >>
    /\ ret = Raise("ValidationError")
    /\ config.categories = << "Added", "Changed" >>

\* a construction with a model outside the list raised
C21_ConstructionWitness ==
    /\ call.op = "__init__"
    /\ call.data = [ai_model |-> "invalid-model"]
    /\ ret = Raise("ValidationError")

----------------------------------------------------------------------------
(* Claims about the generate command *)

NoVersionGiven == options.version = None \/ Chars(options.version[1]) = <<>>

\* the configuration file that was read cannot be loaded
ConfigFileBad ==
    /\ locals.config_file # None
    /\ LET file == ConfigFiles[locals.config_file[1]]
       IN  \/ file.kind = "malformed"
           \/ file.kind = "no_table" /\ options.config # None
           \/ /\ file.kind = "table"
              /\ \/ ~(DOMAIN file.data \subseteq DOMAIN DefaultConfig)
                 \/ \E f \in DOMAIN file.data : Invalid(f, file.data[f])

\* nothing was generated, written or published
NothingDone ==
    /\ locals.new_version = None
    /\ added = <<>>
    /\ changelog.versions = <<>>
    /\ output_file \in { None, Some(ExistingFile) }
    /\ releases = <<>>

\* the changelog file holds what add_version wrote for the new version
FileWritten ==
    /\ locals.new_version # None
    /\ added = <<locals.new_version[1]>>
    /\ changelog.versions = <<locals.new_version[1]>>
    /\ output_file = Some(save_changelog(changelog))

\* C22: a run in which the loading of the configuration, the
\* initialisation of the services, the resolution of the version,
\* generate_version or add_version fails ends with a non-zero exit code and
\* has published no release: a configuration file that cannot be loaded and
\* a missing version without a latest tag make the run fail, every failure
\* ends the run with exit code 1, and a run that ends with exit code 0 has
\* written the file
C22_FailureExitsNonZero ==
    /\ pc = "exit" <=> exit_code # None
    /\ ConfigFileBad => locals.failed = "load_config"
    /\ (NoVersionGiven /\ locals.tags # None /\ locals.latest_tag = None)
           => locals.failed = "resolve_version"
    /\ locals.failed # "nothing" =>
           /\ pc = "exit"
           /\ exit_code = Some(1)
           /\ ret = Raise("ClickException")
    /\ locals.failed \in { "load_config", "initialize_services", "resolve_version",
                           "generate_version", "add_version" }
           => releases = <<>>
    /\ locals.failed \in { "load_config", "initialize_services", "resolve_version",
                           "generate_version" }
           => NothingDone
    /\ exit_code = Some(0) => locals.failed = "nothing" /\ FileWritten

\* add_version failed in a run whose GitHub service had a client and whose
\* configuration asks for a release: exit code 1 and no release
C22_Witness ==
    /\ locals.failed = "add_version"
    /\ exit_code = Some(1)
    /\ config.github_release
    /\ locals.github_service = "client"
    /\ releases = <<>>

\* a configuration file with a category outside the set ended the run
C22_ConfigWitness ==
    /\ ConfigFileBad
    /\ ConfigFiles[locals.config_file[1]].kind = "table"
    /\ exit_code = Some(1)

\* generate_version failed: exit code 1
C22_GenerateWitness ==
    /\ locals.failed = "generate_version"
    /\ exit_code = Some(1)

\* C28: in one run create_release is called at most once, and when it is
\* called add_version has written the file, github_release is enabled, the
\* service has said it is available (which takes a token and a client), the
\* owner and the repository were both extracted from the remote, the body
\* is render_version of the version just added and the tag name is "v"
\* followed by its number
C28_ReleaseOnceAfterWriting ==
    /\ Len(releases) <= 1
    /\ releases # <<>> =>
          /\ pc = "exit"
          /\ FileWritten
          /\ config.github_release
          /\ config.github_token # None
          /\ locals.github_service = "client"
          /\ locals.available = Some(TRUE)
          /\ locals.repo_info # None
          /\ locals.repo_info[1][1] # None /\ locals.repo_info[1][2] # None
          /\ releases[1].owner = locals.repo_info[1][1][1]
          /\ releases[1].repo = locals.repo_info[1][2][1]
          /\ releases[1].owner # <<>> /\ releases[1].repo # <<>>
          /\ releases[1].body = render_version(changelog.versions[1])
          /\ releases[1].tag_name = <<"v">> \o Chars(changelog.versions[1].number)
          /\ releases[1].name = releases[1].tag_name
          /\ releases[1].draft = options.draft

\* a draft release of version 1.10.0 was created for the repository o/r
\* after the file was written
C28_Witness ==
    /\ Len(releases) = 1
    /\ releases[1].success
    /\ releases[1].draft
    /\ releases[1].owner = <<"o">> /\ releases[1].repo = <<"r">>
    /\ releases[1].tag_name = TagV1_10_0
    /\ exit_code = Some(0)
    /\ FileWritten

\* the run ended with exit code 0 and without a release because the remote
\* is not on GitHub
C28_NoRepositoryWitness ==
    /\ exit_code = Some(0)
    /\ locals.available = Some(TRUE)
    /\ locals.repo_info = Some(<<None, None>>)
    /\ releases = <<>>

\* the tags the repository of the run has, when git could list them
RepositoryTags == Range(OutputLines(locals.tags[1]))

\* a latest tag of the repository: a tag with integer components that no
\* such tag is later than
LatestTags ==
    { t \in RepositoryTags :
          /\ Numeric(t)
          /\ \A u \in RepositoryTags : Numeric(u) => ~Later(u, t) }

\* C29 as stated: in a run without --version, when the repository has no
\* latest tag the run ends with a non-zero exit code and nothing is
\* generated or written, and otherwise the version number is a latest tag
\* of the repository without its leading "v"
C29_VersionIsLatestTag ==
    (NoVersionGiven /\ locals.tags # None /\ ~GitFailed(locals.tags[1])) =>
        IF LatestTags = {}
        THEN /\ exit_code = Some(1)
             /\ NothingDone
        ELSE /\ locals.version # None
             /\ <<"v">> \o Chars(locals.version[1]) \in LatestTags
             /\ locals.new_version # None
                    => locals.new_version[1].number = locals.version[1]

\* what holds: in a run without --version, when get_latest_tag returns None
\* (nothing is listed, a listed tag has a component that is no integer, or
\* git fails) the run ends with exit code 1 and nothing is generated or
\* written, and otherwise the version number is the tag returned without
\* its "v": the number of that tag, not a later one
C29_VersionIsReturnedTag ==
    (NoVersionGiven /\ locals.tags # None) =>
        IF locals.latest_tag = None
        THEN /\ exit_code = Some(1)
             /\ locals.failed = "resolve_version"
             /\ NothingDone
        ELSE /\ locals.version # None
             /\ <<"v">> \o Chars(locals.version[1]) = locals.latest_tag[1]
             /\ Chars(locals.version[1])[1] # "v"
             /\ locals.latest_tag[1] \in LatestTags
             /\ locals.new_version # None
                    => locals.new_version[1].number = locals.version[1]

====
